---- MODULE Spec2Model ----
(***************************************************************************)
(* Quota and abuse-detection engine of demo-web-service.                   *)
(*                                                                         *)
(* The demo_usage table is shared by request handlers that run as asyncio  *)
(* tasks.  Every SQL statement is one atomic step of the store; a handler  *)
(* can be preempted at every await, i.e. between any two statements.       *)
(* Time is counted in ticks; TicksPerDay ticks make one calendar day.      *)
(* The column updated_at is written but never read, and is left out.       *)
(*                                                                         *)
(* Spec runs one handler at a time over every argument and lets store      *)
(* statements raise; SpecConcurrent interleaves the statements of two      *)
(* handlers; SpecUsers runs one handler over the rows of two identities.   *)
(* SpecScores applies the scoring functions to arguments drawn at the      *)
(* start; SpecLimiter runs the calls of the IP limiter over audit logs;    *)
(* SpecQuery serves process_query calls one after the other; SpecFlows     *)
(* interleaves the quota steps of the requests of two handlers and         *)
(* SpecArrivals their IP stage and audit row.  SpecWorking is one handler  *)
(* on a store that never raises, with fairness: the clock advances,        *)
(* statements are answered and check_quota is called again and again.      *)
(***************************************************************************)
EXTENDS Integers, Naturals, Sequences, FiniteSets, Bags, TLC

(* ------------------------------ bounds -------------------------------- *)
NumProcs    == 2      \* concurrent request handlers
MaxTime     == 3      \* the clock stops here
TicksPerDay == 2      \* ticks in one calendar day
MaxNeeded   == 2      \* largest tokens_needed estimate passed to check_quota
MaxCost     == 2      \* largest tokens_used / tokens_to_refund
MaxRequests == 2      \* deductions per identity between two writes of requests_count = 0
MaxFaults   == 1      \* store statements that raise in one behaviour

(* --------------------------- configuration ---------------------------- *)
max_tokens     == 3   \* settings.demo_max_tokens (tokens, scaled)
cooldown_hours == 1   \* settings.demo_cooldown_hours (in ticks)

Procs == 1..NumProcs
Users == {"u1"}               \* the identity the handlers serve
AllUsers == {"u1", "u2"}      \* two identities, where one call must not touch the other
NULL  == -1           \* SQL NULL / Python None in a timestamp column

Max(a, b) == IF a >= b THEN a ELSE b
Min(a, b) == IF a <= b THEN a ELSE b

(* ------------------------------ timezones ----------------------------- *)
\* zoneinfo.ZoneInfo(name): the zones the model knows; any other name raises
ValidZone(tz) == tz \in {"UTC", "Asia/Tokyo"}

\* the zone's offset from UTC, in ticks
UtcOffset(tz) == IF tz = "Asia/Tokyo" THEN 1 ELSE 0

\* t.astimezone(ZoneInfo(tz)).date(), as a day number
LocalDate(t, tz) == (t + UtcOffset(tz)) \div TicksPerDay

\* t.date() of an aware UTC datetime
UtcDate(t) == t \div TicksPerDay

\* values a caller may pass as user_timezone ("" stands for None / empty)
TzHints == {"", "Asia/Tokyo", "Mars/Phobos"}

(* ------------------------------ the table ----------------------------- *)
\* a demo_usage row; present = FALSE is "no row for this user_key"
NoRow ==
  [present |-> FALSE, tokens_consumed |-> 0, requests_count |-> 0,
   is_blocked |-> FALSE, blocked_until |-> NULL, last_reset |-> 0,
   user_timezone |-> "UTC"]

\* mutant: the INSERT leaves user_timezone to its default
InsertRow_DefaultZone(tz, t) ==
  [present |-> TRUE, tokens_consumed |-> 0, requests_count |-> 0,
   is_blocked |-> FALSE, blocked_until |-> NULL, last_reset |-> t,
   user_timezone |-> "UTC"]

\* INSERT INTO demo_usage (user_key, tokens_consumed, requests_count,
\* is_blocked, user_timezone); last_reset takes the column default (now)
InsertRow(tz, t) ==
  [present |-> TRUE, tokens_consumed |-> 0, requests_count |-> 0,
   is_blocked |-> FALSE, blocked_until |-> NULL, last_reset |-> t,
   user_timezone |-> tz]

\* UPDATE demo_usage SET user_timezone = %s
UpdateTzRow(row, tz) == [row EXCEPT !.user_timezone = tz]

\* UPDATE demo_usage SET tokens_consumed = 0, requests_count = 0,
\* is_blocked = false, blocked_until = NULL, last_reset = %s
ResetRow(row, t) ==
  [row EXCEPT !.tokens_consumed = 0, !.requests_count = 0,
              !.is_blocked = FALSE, !.blocked_until = NULL, !.last_reset = t]

\* mutant: the statement flips is_blocked
UnblockRow_Toggle(row) ==
  [row EXCEPT !.is_blocked = ~row.is_blocked, !.blocked_until = NULL]

\* mutant: unblocking also gives the quota back
UnblockRow_Reset(row) ==
  [row EXCEPT !.is_blocked = FALSE, !.blocked_until = NULL, !.tokens_consumed = 0]

\* UPDATE demo_usage SET is_blocked = false, blocked_until = NULL
UnblockRow(row) == [row EXCEPT !.is_blocked = FALSE, !.blocked_until = NULL]

\* mutant: SET tokens_consumed = %s, the increment written as an overwrite
DeductRow_Overwrite(row, tokens_used, until) ==
  [row EXCEPT
     !.tokens_consumed = tokens_used,
     !.requests_count  = row.requests_count + 1,
     !.is_blocked      = IF tokens_used >= max_tokens THEN TRUE ELSE row.is_blocked,
     !.blocked_until   = IF tokens_used >= max_tokens THEN until ELSE row.blocked_until]

\* mutant: the UPDATE only counts; blocking is left to a later statement
DeductRow_NoBlock(row, tokens_used, until) ==
  [row EXCEPT
     !.tokens_consumed = row.tokens_consumed + tokens_used,
     !.requests_count  = row.requests_count + 1]

\* mutant: the UPDATE sets the flag and leaves the deadline alone
DeductRow_FlagOnly(row, tokens_used, until) ==
  [row EXCEPT
     !.tokens_consumed = row.tokens_consumed + tokens_used,
     !.requests_count  = row.requests_count + 1,
     !.is_blocked      = IF row.tokens_consumed + tokens_used >= max_tokens
                         THEN TRUE ELSE row.is_blocked]

\* the single UPDATE of deduct_tokens; the CASE arms read the old column value
DeductRow(row, tokens_used, until) ==
  [row EXCEPT
     !.tokens_consumed = row.tokens_consumed + tokens_used,
     !.requests_count  = row.requests_count + 1,
     !.is_blocked      = IF row.tokens_consumed + tokens_used >= max_tokens
                         THEN TRUE ELSE row.is_blocked,
     !.blocked_until   = IF row.tokens_consumed + tokens_used >= max_tokens
                         THEN until ELSE row.blocked_until]

\* mutant: the refund without its floor at zero
RefundRow_NoFloor(row, tokens_to_refund) ==
  [row EXCEPT !.tokens_consumed = row.tokens_consumed - tokens_to_refund]

\* UPDATE demo_usage SET tokens_consumed = MAX(0, tokens_consumed - %s),
\* with MAX read as the larger of its two arguments, on a store that has
\* such a function (refund_tokens_rejected is the store that has not)
RefundRow(row, tokens_to_refund) ==
  [row EXCEPT !.tokens_consumed = Max(0, row.tokens_consumed - tokens_to_refund)]

(* ------------------------------- state -------------------------------- *)
VARIABLES
  now,      \* the clock: datetime.now(timezone.utc), in ticks
  table,    \* demo_usage: user_key -> row
  task,     \* per handler: the call it is in, its locals and its return value
  hist,     \* history per user_key: the deductions committed since the last other
            \* write of the counters or of the block columns, the latest
            \* clock reading of a deduction that reached the limit, kept until
            \* a reset, an unblock or a refund below the limit, and the zone
            \* the row held when the clock last advanced
  faults,   \* store statements that have raised so far
  handlers, \* how many handlers serve requests at the same time
  audit,    \* demo_audit_log: the bag of its rows
  query,    \* the process_query call being served, with its locals
  calc      \* a scoring function, the arguments it is applied to, its value

\* what the calls of the quota engine leave alone
rest == <<audit, query, calc>>

vars == <<now, table, task, hist, faults, handlers, rest>>

\* an empty audit log, no query being served, no function applied
NoRows == <<>>

NoQuery == [pc |-> "idle"]

NoCalc == [fn |-> "none"]

Idle ==
  [pc |-> "idle", op |-> "none", user_key |-> "u1", amount |-> 0,
   user_timezone |-> "", result |-> NoRow, now |-> 0,
   can |-> FALSE, rem |-> 0, path |-> "", raised |-> FALSE]

\* history after a write that is not a deduction
Fresh(row) ==
  [base_tokens |-> row.tokens_consumed, base_requests |-> row.requests_count,
   sum |-> 0, n |-> 0, blocked_at |-> NULL, zone |-> row.user_timezone]

\* the same for a row that was there when the clock last advanced
Rewritten(h, row) == [Fresh(row) EXCEPT !.zone = h.zone]

Init ==
  /\ now = 0
  /\ table = [u \in Users |-> NoRow]
  /\ task = [p \in Procs |-> Idle]
  /\ hist = [u \in Users |-> Fresh(NoRow)]
  /\ faults = 0
  /\ handlers = 1
  /\ audit = NoRows
  /\ query = NoQuery
  /\ calc = NoCalc

\* two handlers at once: every interleaving of their statements, for callers
\* that pass no zone and the smallest estimate, on a store that does not raise
InitConcurrent ==
  /\ now = 0
  /\ table = [u \in Users |-> NoRow]
  /\ task = [p \in Procs |-> Idle]
  /\ hist = [u \in Users |-> Fresh(NoRow)]
  /\ faults = MaxFaults
  /\ handlers = NumProcs
  /\ audit = NoRows
  /\ query = NoQuery
  /\ calc = NoCalc

\* one handler serving two identities, for callers that pass no zone and the
\* smallest estimate, on a store that does not raise
InitUsers ==
  /\ now = 0
  /\ table = [u \in AllUsers |-> NoRow]
  /\ task = [p \in Procs |-> Idle]
  /\ hist = [u \in AllUsers |-> Fresh(NoRow)]
  /\ faults = MaxFaults
  /\ handlers = 1
  /\ audit = NoRows
  /\ query = NoQuery
  /\ calc = NoCalc

Free(p) == p <= handlers /\ task[p].pc \in {"idle", "done"}

InCall(p) == task[p].pc \notin {"idle", "done"}

\* the arguments callers pass
Estimates == IF handlers = 1 /\ DOMAIN table = Users THEN 1..MaxNeeded ELSE {1}
Zones     == IF handlers = 1 /\ DOMAIN table = Users THEN TzHints ELSE {""}

\* the call returns: its decision is recorded in the task
Return(t, path, can, rem) ==
  [t EXCEPT !.pc = "done", !.path = path, !.can = can, !.rem = rem]

Goto(t, pc) == [t EXCEPT !.pc = pc]

(* ----------------------------- check_quota ---------------------------- *)
\* mutant: the request is refused when the estimate does not fit
FinalAnswer_Strict(t, r) ==
  Return(t, "normal", (max_tokens - r.tokens_consumed) - t.amount >= 0,
         Max(0, (max_tokens - r.tokens_consumed) - t.amount))

\* lines 178-188: any remaining quota lets the request proceed
FinalAnswer(t, r) ==
  Return(t, "normal", max_tokens - r.tokens_consumed > 0,
         Max(0, (max_tokens - r.tokens_consumed) - t.amount))

\* mutant: an expired block is left in the row
BlockCheck_KeepExpired(t, r) ==
  IF r.is_blocked /\ r.blocked_until # NULL /\ r.blocked_until > t.now
  THEN Return(t, "blocked", FALSE, max_tokens - r.tokens_consumed)
  ELSE FinalAnswer(t, r)

\* mutant: the deadline of the block is not looked at
BlockCheck_NoDeadline(t, r) ==
  IF r.is_blocked THEN Goto(t, "cq_unblock") ELSE FinalAnswer(t, r)

\* lines 160-176: an active block denies, an expired one is cleared first
BlockCheck(t, r) ==
  IF r.is_blocked
  THEN IF r.blocked_until # NULL /\ r.blocked_until > t.now
       THEN Return(t, "blocked", FALSE, max_tokens - r.tokens_consumed)
       ELSE Goto(t, "cq_unblock")
  ELSE FinalAnswer(t, r)

\* lines 143-158: the except branch compares the UTC dates
UtcFallback(t, r) ==
  IF UtcDate(r.last_reset) < UtcDate(t.now)
  THEN Goto(t, "cq_reset_utc")
  ELSE BlockCheck(t, r)

\* mutant: every call that finds a row resets it
ResetCheck_Always(t, r) == Goto(t, "cq_reset")

\* mutant: the dates are compared in UTC whatever the zone of the row
ResetCheck_Utc(t, r) == UtcFallback(t, r)

\* mutant: midnight is never found to have passed
ResetCheck_Never(t, r) == BlockCheck(t, r)

\* lines 116-129: has midnight passed in the zone read with the row
ResetCheck(t, r) ==
  IF ValidZone(r.user_timezone)
  THEN IF LocalDate(r.last_reset, r.user_timezone) < LocalDate(t.now, r.user_timezone)
       THEN Goto(t, "cq_reset")
       ELSE BlockCheck(t, r)
  ELSE UtcFallback(t, r)

\* lines 93-114 after the SELECT: insert, update the zone, or go on
AfterSelect(t, r) ==
  IF ~r.present THEN Goto(t, "cq_insert")
  ELSE IF t.user_timezone # "" /\ t.user_timezone # r.user_timezone
       THEN Goto(t, "cq_tz")
       ELSE ResetCheck(t, r)

check_quota(p) ==
  /\ Free(p)
  /\ \E u \in DOMAIN table, needed \in Estimates, tz \in Zones :
       task' = [task EXCEPT ![p] =
                  [Idle EXCEPT !.pc = "cq_select", !.op = "check_quota",
                               !.user_key = u, !.amount = needed,
                               !.user_timezone = tz]]
  /\ UNCHANGED <<now, table, hist, faults, handlers, rest>>

\* SELECT ... WHERE user_key = %s, then now = datetime.now(timezone.utc)
check_quota_select(p) ==
  /\ task[p].pc = "cq_select"
  /\ LET r == table[task[p].user_key]
         t == [task[p] EXCEPT !.result = r, !.now = now]
     IN task' = [task EXCEPT ![p] = AfterSelect(t, r)]
  /\ UNCHANGED <<now, table, hist, faults, handlers, rest>>

\* the INSERT of a row for an unseen user_key
check_quota_insert(p) ==
  /\ task[p].pc = "cq_insert"
  /\ LET t == task[p]
         u == t.user_key
         tz == IF t.user_timezone # "" THEN t.user_timezone ELSE "UTC"
     IN /\ ~table[u].present
        /\ table' = [table EXCEPT ![u] = InsertRow(tz, now)]
        /\ hist' = [hist EXCEPT ![u] = Fresh(table'[u])]
        /\ task' = [task EXCEPT ![p] = Return(t, "new", TRUE, max_tokens - t.amount)]
  /\ UNCHANGED <<now, faults, handlers, rest>>

\* the UPDATE of user_timezone, when the caller supplies a different zone
check_quota_update_tz(p) ==
  /\ task[p].pc = "cq_tz"
  /\ LET t == task[p]
         u == t.user_key
     IN /\ table' = [table EXCEPT ![u] = UpdateTzRow(@, t.user_timezone)]
        /\ task' = [task EXCEPT ![p] = ResetCheck(t, t.result)]
  /\ UNCHANGED <<now, hist, faults, handlers, rest>>

\* the reset UPDATE (both the zone branch and the UTC fallback branch)
check_quota_reset(p) ==
  /\ task[p].pc \in {"cq_reset", "cq_reset_utc"}
  /\ LET t == task[p]
         u == t.user_key
     IN /\ table' = [table EXCEPT ![u] = ResetRow(@, t.now)]
        /\ hist' = [hist EXCEPT ![u] = Rewritten(hist[u], table'[u])]
        /\ task' = [task EXCEPT ![p] = Return(t, "reset", TRUE, max_tokens - t.amount)]
  /\ UNCHANGED <<now, faults, handlers, rest>>

\* the auto-unblock UPDATE of an expired block
check_quota_unblock(p) ==
  /\ task[p].pc = "cq_unblock"
  /\ LET t == task[p]
         u == t.user_key
     IN /\ table' = [table EXCEPT ![u] = UnblockRow(@)]
        /\ hist' = [hist EXCEPT ![u] = Rewritten(hist[u], table'[u])]
        /\ task' = [task EXCEPT ![p] = FinalAnswer(t, t.result)]
  /\ UNCHANGED <<now, faults, handlers, rest>>

\* user_key is UNIQUE in demo_usage: the INSERT of a handler that lost the
\* race for a new user_key raises, and check_quota fails open (lines 190-193)
check_quota_insert_conflict(p) ==
  /\ task[p].pc = "cq_insert"
  /\ table[task[p].user_key].present
  /\ task' = [task EXCEPT ![p] =
                Return([task[p] EXCEPT !.raised = TRUE], "error", TRUE, max_tokens)]
  /\ UNCHANGED <<now, table, hist, faults, handlers, rest>>

(* ---------------------------- deduct_tokens --------------------------- *)
\* deductions in flight for a user_key
InFlight(u) ==
  Cardinality({q \in Procs : task[q].pc = "dd_update" /\ task[q].user_key = u})

\* lines 211-218: now is read before the statement is sent
deduct_tokens(p) ==
  /\ Free(p)
  /\ \E u \in DOMAIN table, tokens_used \in 1..MaxCost :
       /\ table[u].requests_count + InFlight(u) < MaxRequests
       /\ task' = [task EXCEPT ![p] =
                     [Idle EXCEPT !.pc = "dd_update", !.op = "deduct_tokens",
                                  !.user_key = u, !.amount = tokens_used,
                                  !.now = now]]
  /\ UNCHANGED <<now, table, hist, faults, handlers, rest>>

\* lines 220-263: the UPDATE ... RETURNING and the value returned
deduct_tokens_update(p) ==
  /\ task[p].pc = "dd_update"
  /\ LET t == task[p]
         u == t.user_key
         new == DeductRow(table[u], t.amount, t.now + cooldown_hours)
     IN IF table[u].present
        THEN /\ table' = [table EXCEPT ![u] = new]
             /\ hist' = [hist EXCEPT ![u] =
                           [@ EXCEPT !.sum = @ + t.amount, !.n = @ + 1,
                                     !.blocked_at =
                                        IF new.tokens_consumed >= max_tokens
                                        THEN Max(@, t.now) ELSE @]]
             /\ task' = [task EXCEPT ![p] =
                           Return(t, "ok", new.is_blocked,
                                  Max(0, max_tokens - new.tokens_consumed))]
        ELSE /\ task' = [task EXCEPT ![p] = Return(t, "notfound", FALSE, max_tokens)]
             /\ UNCHANGED <<table, hist>>
  /\ UNCHANGED <<now, faults, handlers, rest>>

(* ---------------------------- refund_tokens --------------------------- *)
\* mutant: the amount is not validated
RefundEntry_NoGuard(t) == Goto(t, "rf_update")

\* lines 417-424: a non-positive amount is rejected without a statement
RefundEntry(t) ==
  IF t.amount <= 0
  THEN Return(t, "invalid", FALSE, max_tokens)
  ELSE Goto(t, "rf_update")

refund_tokens(p) ==
  /\ Free(p)
  /\ \E u \in DOMAIN table, tokens_to_refund \in -1..MaxCost :
       LET t == [Idle EXCEPT !.op = "refund_tokens", !.user_key = u,
                             !.amount = tokens_to_refund]
       IN task' = [task EXCEPT ![p] = RefundEntry(t)]
  /\ UNCHANGED <<now, table, hist, faults, handlers, rest>>

\* lines 426-445: the UPDATE ... RETURNING tokens_consumed, is_blocked;
\* result keeps the row as it was before the statement
refund_tokens_update(p) ==
  /\ task[p].pc = "rf_update"
  /\ LET t == [task[p] EXCEPT !.result = table[task[p].user_key]]
         u == t.user_key
         new == RefundRow(table[u], t.amount)
         t2 == [t EXCEPT !.rem = Max(0, max_tokens - new.tokens_consumed)]
     IN IF table[u].present
        THEN /\ table' = [table EXCEPT ![u] = new]
             /\ hist' = [hist EXCEPT ![u] =
                           [Rewritten(hist[u], new) EXCEPT !.blocked_at =
                              IF new.tokens_consumed >= max_tokens
                              THEN hist[u].blocked_at ELSE NULL]]
             /\ task' = [task EXCEPT ![p] =
                           IF new.is_blocked /\ new.tokens_consumed < max_tokens
                           THEN Goto(t2, "rf_unblock")
                           ELSE Return(t2, "ok", FALSE, t2.rem)]
        ELSE /\ task' = [task EXCEPT ![p] = Return(t, "notfound", FALSE, max_tokens)]
             /\ UNCHANGED <<table, hist>>
  /\ UNCHANGED <<now, faults, handlers, rest>>

\* lines 446-457: the second statement, clearing the block
refund_tokens_unblock(p) ==
  /\ task[p].pc = "rf_unblock"
  /\ LET t == task[p]
         u == t.user_key
     IN /\ table' = [table EXCEPT ![u] = UnblockRow(@)]
        /\ hist' = [hist EXCEPT ![u] = Rewritten(hist[u], table'[u])]
        /\ task' = [task EXCEPT ![p] = Return(t, "ok", TRUE, t.rem)]
  /\ UNCHANGED <<now, faults, handlers, rest>>

\* lines 429 and 459-461: PostgreSQL has max only as a one-argument aggregate;
\* it answers MAX(0, tokens_consumed - $1) with "function max(integer,
\* integer) does not exist", the row stays as it was, and the handler
\* returns max_tokens
refund_tokens_rejected(p) ==
  /\ task[p].pc = "rf_update"
  /\ LET t == [task[p] EXCEPT !.result = table[task[p].user_key], !.raised = TRUE]
     IN task' = [task EXCEPT ![p] = Return(t, "rejected", FALSE, max_tokens)]
  /\ UNCHANGED <<now, table, hist, faults, handlers, rest>>

(* ----------------------------- unblock_user --------------------------- *)
unblock_user(p) ==
  /\ Free(p)
  /\ \E u \in DOMAIN table :
       task' = [task EXCEPT ![p] =
                  [Idle EXCEPT !.pc = "ub_update", !.op = "unblock_user",
                               !.user_key = u]]
  /\ UNCHANGED <<now, table, hist, faults, handlers, rest>>

\* lines 479-489: the UPDATE matches the row if there is one; result keeps
\* the row as it was before the statement
unblock_user_update(p) ==
  /\ task[p].pc = "ub_update"
  /\ LET t == [task[p] EXCEPT !.result = table[task[p].user_key]]
         u == t.user_key
     IN /\ IF table[u].present
           THEN /\ table' = [table EXCEPT ![u] = UnblockRow(@)]
                /\ hist' = [hist EXCEPT ![u] = Rewritten(hist[u], table'[u])]
           ELSE UNCHANGED <<table, hist>>
        /\ task' = [task EXCEPT ![p] = Return(t, "ok", TRUE, 0)]
  /\ UNCHANGED <<now, faults, handlers, rest>>

(* --------------------------- get_quota_status ------------------------- *)
\* lines 299-321: tokens_used and tokens_remaining of the status
QuotaStatus(r) ==
  IF ~r.present
  THEN [tokens_used |-> 0, tokens_remaining |-> max_tokens]
  ELSE [tokens_used |-> r.tokens_consumed,
        tokens_remaining |-> Max(0, max_tokens - r.tokens_consumed)]

get_quota_status(p) ==
  /\ Free(p)
  /\ \E u \in DOMAIN table :
       task' = [task EXCEPT ![p] =
                  [Idle EXCEPT !.pc = "gs_select", !.op = "get_quota_status",
                               !.user_key = u]]
  /\ UNCHANGED <<now, table, hist, faults, handlers, rest>>

get_quota_status_select(p) ==
  /\ task[p].pc = "gs_select"
  /\ LET t == task[p]
         r == table[t.user_key]
     IN task' = [task EXCEPT ![p] =
                   Return([t EXCEPT !.result = r],
                          IF r.present THEN "found" ELSE "notfound",
                          r.is_blocked, QuotaStatus(r).tokens_remaining)]
  /\ UNCHANGED <<now, table, hist, faults, handlers, rest>>

(* ----------------------------- store errors --------------------------- *)
\* db.execute raises RuntimeError: what the handler of each call does with it
OnError(t) ==
  LET e == [t EXCEPT !.raised = TRUE] IN
  CASE t.pc \in {"cq_select", "cq_insert", "cq_tz", "cq_reset_utc", "cq_unblock"}
         -> Return(e, "error", TRUE, max_tokens)                \* lines 190-193
    [] t.pc = "cq_reset"     -> UtcFallback(e, e.result)        \* lines 143-158
    [] t.pc = "dd_update"    -> Return(e, "error", FALSE, max_tokens)  \* 265-267
    [] t.pc \in {"rf_update", "rf_unblock"}
         -> Return(e, "error", FALSE, max_tokens)               \* lines 459-461
    [] t.pc = "ub_update"    -> Return(e, "error", FALSE, 0)    \* lines 491-493
    [] t.pc = "gs_select"    -> Return(e, "error", FALSE, max_tokens)  \* 358-374

StoreRaises(p) ==
  /\ faults < MaxFaults
  /\ InCall(p)
  /\ faults' = faults + 1
  /\ task' = [task EXCEPT ![p] = OnError(task[p])]
  /\ UNCHANGED <<now, table, hist, handlers, rest>>

(* -------------------------------- clock ------------------------------- *)
Tick ==
  /\ now < MaxTime
  /\ now' = now + 1
  /\ hist' = [u \in DOMAIN hist |-> [hist[u] EXCEPT !.zone = table[u].user_timezone]]
  /\ UNCHANGED <<table, task, faults, handlers, rest>>

\* one handler at a time: every sequence of calls, with every argument, on a
\* store that may raise
Next ==
  \/ Tick
  \/ \E p \in Procs :
       \/ check_quota(p)
       \/ check_quota_select(p)
       \/ check_quota_insert(p)
       \/ check_quota_update_tz(p)
       \/ check_quota_reset(p)
       \/ check_quota_unblock(p)
       \/ deduct_tokens(p)
       \/ deduct_tokens_update(p)
       \/ refund_tokens(p)
       \/ refund_tokens_update(p)
       \/ refund_tokens_unblock(p)
       \/ refund_tokens_rejected(p)
       \/ unblock_user(p)
       \/ unblock_user_update(p)
       \/ get_quota_status(p)
       \/ get_quota_status_select(p)
       \/ StoreRaises(p)

Spec == Init /\ [][Next]_vars

\* the statements of two handlers interleaved; the store does not raise and
\* no caller passes a zone
NextConcurrent ==
  \/ Tick
  \/ \E p \in Procs :
       \/ check_quota(p)
       \/ check_quota_select(p)
       \/ check_quota_insert(p)
       \/ check_quota_insert_conflict(p)
       \/ check_quota_reset(p)
       \/ check_quota_unblock(p)
       \/ deduct_tokens(p)
       \/ deduct_tokens_update(p)
       \/ refund_tokens(p)
       \/ refund_tokens_update(p)
       \/ refund_tokens_unblock(p)
       \/ refund_tokens_rejected(p)
       \/ unblock_user(p)
       \/ unblock_user_update(p)
       \/ get_quota_status(p)
       \/ get_quota_status_select(p)

SpecConcurrent == InitConcurrent /\ [][NextConcurrent]_vars

\* the calls that write the block columns, on two identities
NextUsers ==
  \/ Tick
  \/ \E p \in Procs :
       \/ check_quota(p)
       \/ check_quota_select(p)
       \/ check_quota_insert(p)
       \/ check_quota_reset(p)
       \/ check_quota_unblock(p)
       \/ deduct_tokens(p)
       \/ deduct_tokens_update(p)
       \/ unblock_user(p)
       \/ unblock_user_update(p)

SpecUsers == InitUsers /\ [][NextUsers]_vars

(* ------------------- binary64 arithmetic of CPython ------------------- *)
\* A positive float is a pair: 53 bits, the most significant first and set,
\* and the power of two that weighs the last of them.
MantissaBits == 53
GuardBits    == 36     \* quotient digits behind the binary point, produced twice
LimbBits     == 18     \* digits multiplied at a time
Limb         == 262144 \* 2^LimbBits

\* the binary digits of a natural number, most significant first
RECURSIVE Bits(_)
Bits(n) == IF n = 0 THEN <<>> ELSE Append(Bits(n \div 2), n % 2)

\* the natural number written by at most 30 binary digits
RECURSIVE ToInt(_)
ToInt(bits) ==
  IF bits = <<>> THEN 0
  ELSE 2 * ToInt(SubSeq(bits, 1, Len(bits) - 1)) + bits[Len(bits)]

\* n more digits of the quotient by d, from remainder r, and what remains
RECURSIVE LongDivision(_, _, _)
LongDivision(r, d, n) ==
  IF n = 0 THEN [bits |-> <<>>, rem |-> r]
  ELSE LET next == LongDivision((2 * r) % d, d, n - 1)
       IN [bits |-> <<(2 * r) \div d>> \o next.bits, rem |-> next.rem]

\* bits + 1; a carry out of the first digit lengthens the sequence
RECURSIVE Increment(_)
Increment(bits) ==
  IF bits = <<>> THEN <<1>>
  ELSE IF bits[Len(bits)] = 0
       THEN [bits EXCEPT ![Len(bits)] = 1]
       ELSE Append(Increment(SubSeq(bits, 1, Len(bits) - 1)), 0)

FirstOne(bits) ==
  IF \E i \in 1..Len(bits) : bits[i] = 1
  THEN CHOOSE i \in 1..Len(bits) : bits[i] = 1 /\ \A j \in 1..(i - 1) : bits[j] = 0
  ELSE 0

\* round to nearest, ties to even: the digits `bits', the last of which weighs
\* 2^weight, followed by a non-zero tail when `inexact'
RoundToFloat(bits, weight, inexact) ==
  LET f == FirstOne(bits)
      last == f + MantissaBits - 1
  IN IF f = 0 THEN [zero |-> TRUE, m |-> <<>>, e |-> 0]
     ELSE IF Len(bits) <= last
          THEN [zero |-> FALSE,
                m |-> SubSeq(bits, f, Len(bits)) \o [i \in 1..(last - Len(bits)) |-> 0],
                e |-> weight - (last - Len(bits))]
          ELSE LET kept == SubSeq(bits, f, last)
                   half == bits[last + 1] = 1
                   tail == inexact \/ \E i \in (last + 2)..Len(bits) : bits[i] = 1
                   up == half /\ (tail \/ kept[MantissaBits] = 1)
                   rounded == IF up THEN Increment(kept) ELSE kept
                   scale == weight + (Len(bits) - last)
               IN IF Len(rounded) > MantissaBits
                  THEN [zero |-> FALSE, m |-> SubSeq(rounded, 1, MantissaBits),
                        e |-> scale + 1]
                  ELSE [zero |-> FALSE, m |-> rounded, e |-> scale]

\* int / int: the correctly rounded quotient of two naturals, d > 0; the
\* digits are produced in two runs to keep the recursion shallow
TrueDivide(n, d) ==
  LET head == LongDivision(n % d, d, GuardBits)
      tail == LongDivision(head.rem, d, GuardBits)
  IN RoundToFloat(Bits(n \div d) \o head.bits \o tail.bits,
                  0 - 2 * GuardBits, tail.rem # 0)

\* the digits of n written in `width' places
Pad(n, width) ==
  LET bits == Bits(n) IN [i \in 1..(width - Len(bits)) |-> 0] \o bits

\* float * int, for a small positive int: the 53 digits are multiplied in
\* three limbs, each carrying into the next
Times(x, k) ==
  LET low  == ToInt(SubSeq(x.m, 2 * LimbBits, MantissaBits)) * k
      mid  == ToInt(SubSeq(x.m, LimbBits, 2 * LimbBits - 1)) * k + low \div Limb
      high == ToInt(SubSeq(x.m, 1, LimbBits - 1)) * k + mid \div Limb
  IN IF x.zero THEN x
     ELSE RoundToFloat(Bits(high) \o Pad(mid % Limb, LimbBits)
                                  \o Pad(low % Limb, LimbBits),
                       x.e, FALSE)

\* int(float): the digits in front of the binary point
Truncate(x) ==
  IF x.zero \/ MantissaBits + x.e <= 0 THEN 0
  ELSE ToInt(SubSeq(x.m, 1, MantissaBits + x.e))

(* --------------------- get_quota_status: the warning ------------------ *)
demo_warning_threshold == 85    \* settings.demo_warning_threshold (percent)

MaxShare == 102     \* consumptions go up to this many hundredths of the limit

\* token_bucket.py lines 319-333: percentage_used, is_warning and the message
\* (<<>> is None; the text carries the percentage)
WarningReport(tokens_consumed, limit) ==
  LET percentage_used ==
        Min(100, Truncate(Times(TrueDivide(tokens_consumed, limit), 100)))
      is_warning == percentage_used >= demo_warning_threshold
  IN [percentage_used |-> percentage_used,
      is_warning |-> is_warning,
      message |-> IF is_warning THEN <<percentage_used>> ELSE <<>>]

\* the limits a deployment is configured with and the consumptions of a row
StatusInputs ==
  {[fn |-> "get_quota_status", tokens_consumed |-> c, max_tokens |-> l,
    done |-> FALSE, out |-> <<>>] :
     <<c, l>> \in UNION {{<<(k * l) \div 100, l>> : k \in 0..MaxShare}
                          \cup {<<4199, l>>} : l \in {max_tokens, 100, 5000}}}

quota_status_report ==
  /\ calc.fn = "get_quota_status"
  /\ ~calc.done
  /\ calc' = [calc EXCEPT !.done = TRUE,
                          !.out = WarningReport(calc.tokens_consumed, calc.max_tokens)]
  /\ UNCHANGED <<now, table, task, hist, faults, handlers, audit, query>>

(* ---------------------------- demo_audit_log -------------------------- *)
\* Strings that are looked into are sequences of characters; None is apart.
None  == <<"None">>
Blank == <<" ", " ">>
IpA   == <<"1", ".", "1">>
IpB   == <<"2", ".", "2">>
NullKey == "NULL"     \* user_key IS NULL

Addresses == {IpA, IpB}
IpArguments == {None, <<>>, Blank} \cup Addresses

\* str.strip(): the spaces at both ends are dropped
RECURSIVE LStrip(_)
LStrip(s) == IF s # <<>> /\ Head(s) = " " THEN LStrip(Tail(s)) ELSE s

RECURSIVE RStrip(_)
RStrip(s) ==
  IF s # <<>> /\ s[Len(s)] = " " THEN RStrip(SubSeq(s, 1, Len(s) - 1)) ELSE s

Strip(s) == RStrip(LStrip(s))

\* `not s': None and the empty string are false
Falsy(s) == s = None \/ s = <<>>

\* `not ip_address or not ip_address.strip()'
BlankIp(ip) == Falsy(ip) \/ Falsy(Strip(ip))

\* scores are kept in millionths-like units; 1.0 is Unit
Unit == 1200000

\* n / d and x * (n / d), in units
Frac(n, d) == (n * Unit) \div d
Scale(x, n, d) == (x * n) \div d

\* durations of the limiter's windows, in ticks: rows of this tick are within
\* the minute, those of the tick before within the hour
one_minute == 0
one_hour   == 1
one_day    == TicksPerDay

\* the columns of demo_audit_log that are read again
AuditRow(user_key, ip, t, is_blocked, block_reason, abuse_score) ==
  [user_key |-> user_key, ip_address |-> ip, created_at |-> t,
   is_blocked |-> is_blocked, block_reason |-> block_reason,
   abuse_score |-> abuse_score]

\* mutant: the statement replaces the log by the row
InsertAudit_Overwrite(log, row) == SetToBag({row})

\* INSERT INTO demo_audit_log: one more copy of the row
InsertAudit(log, row) == log (+) SetToBag({row})

\* a log restricted to the rows kept, and COUNT(*) over them
Rows(log, kept) == [r \in DOMAIN log \cap kept |-> log[r]]

Count(log, kept) == BagCardinality(Rows(log, kept))

\* SUM(abuse_score) over a log
RECURSIVE SumScores(_)
SumScores(log) ==
  IF DOMAIN log = {} THEN 0
  ELSE LET r == CHOOSE x \in DOMAIN log : TRUE
       IN log[r] * r.abuse_score + SumScores([x \in DOMAIN log \ {r} |-> log[x]])

\* round(x / n, 3): the nearest thousandth
Milli == Unit \div 1000

RoundMilli(x, n) == ((2 * x + Milli * n) \div (2 * Milli * n)) * Milli

\* round(AVG(abuse_score), 3), or 0.0 for no row or an average of zero
AvgScore(log) ==
  IF DOMAIN log = {} THEN 0 ELSE RoundMilli(SumScores(log), BagCardinality(log))

(* ------------------------------ IPLimiter ----------------------------- *)
ip_rate_limit_requests     == 100   \* settings.ip_rate_limit_requests
ip_suspicious_req_per_min  == 5     \* settings.ip_suspicious_req_per_min
ip_suspicious_unique_users == 10    \* settings.ip_suspicious_unique_users
ScanMargin                 == 100   \* LIMIT max_requests_per_minute + 100
MaxBlockedCount            == 5     \* blocked_count > 5

\* a call of the limiter: its argument, the statements it has sent, the
\* stats it holds and its return value
LimiterCall(fn, ip, pc) ==
  [fn |-> fn, pc |-> pc, ip_address |-> ip, statements |-> 0,
   stats |-> <<>>, out |-> <<>>, raised |-> FALSE]

CalcFree == calc.fn = "none" \/ (calc.fn \in {"check_rate_limit", "get_ip_stats",
                                              "is_ip_suspicious"} /\ calc.pc = "done")

Reply(c, out) == [c EXCEPT !.pc = "done", !.out = out]

\* mutant: the rows of every address are counted
RecentRequests_AnyIp(log, ip, t) ==
  Min(Count(log, {r \in DOMAIN log : r.created_at >= t - one_minute}),
      ip_rate_limit_requests + ScanMargin)

\* lines 73-88: the rows of the address in the trailing minute, at most
\* max_requests_per_minute + 100 of them
RecentRequests(log, ip, t) ==
  Min(Count(log, {r \in DOMAIN log : /\ r.ip_address = ip
                                      /\ r.created_at >= t - one_minute}),
      ip_rate_limit_requests + ScanMargin)

\* mutant: a blank address is let through
RateLimitEntry_Open(c) ==
  IF BlankIp(c.ip_address) THEN Reply(c, <<TRUE, 0>>) ELSE [c EXCEPT !.pc = "rl_select"]

\* lines 60-63: a blank address is denied before any statement
RateLimitEntry(c) ==
  IF BlankIp(c.ip_address) THEN Reply(c, <<FALSE, 0>>) ELSE [c EXCEPT !.pc = "rl_select"]

check_rate_limit ==
  /\ CalcFree
  /\ query.pc = "idle"
  /\ \E ip \in IpArguments :
       calc' = RateLimitEntry(LimiterCall("check_rate_limit", ip, "entry"))
  /\ UNCHANGED <<now, table, task, hist, faults, handlers, audit, query>>

\* lines 65-94: the SELECT COUNT(*) and the decision
check_rate_limit_select ==
  /\ calc.fn = "check_rate_limit"
  /\ calc.pc = "rl_select"
  /\ LET request_count == RecentRequests(audit, calc.ip_address, now)
     IN calc' = Reply([calc EXCEPT !.statements = @ + 1],
                      <<request_count < ip_rate_limit_requests, request_count>>)
  /\ UNCHANGED <<now, table, task, hist, faults, handlers, audit, query>>

\* lines 120-132: the stats of a blank address
DefaultStats ==
  [total_requests |-> 0, requests_today |-> 0, requests_per_minute |-> 0,
   unique_users |-> 0, abuse_score_avg |-> 0, abuse_score_max |-> 0,
   rate_limit_exceeded |-> FALSE]

\* lines 134-215: the six SELECTs, read off the log as it is at one instant
IpStats(log, ip, t) ==
  LET mine == Rows(log, {r \in DOMAIN log : r.ip_address = ip})
      rate == Count(mine, {r \in DOMAIN mine : r.created_at >= t - one_minute})
  IN [total_requests |-> BagCardinality(mine),
      requests_today |-> Count(mine, {r \in DOMAIN mine : r.created_at >= t - one_day}),
      requests_per_minute |-> rate,
      unique_users |->
         Cardinality({r.user_key : r \in {x \in DOMAIN mine : x.user_key # NullKey}}),
      abuse_score_avg |-> AvgScore(mine),
      abuse_score_max |->
         IF DOMAIN mine = {} THEN 0
         ELSE LET top == CHOOSE x \in DOMAIN mine :
                           \A y \in DOMAIN mine : y.abuse_score <= x.abuse_score
              IN RoundMilli(top.abuse_score, 1),
      rate_limit_exceeded |-> rate >= ip_rate_limit_requests]

\* lines 217-222: the stats returned when a statement raised
ErrorStats == [error |-> TRUE]

\* lines 119-132: the stats of a blank address need no statement
StatsEntry(ip) ==
  LET c == LimiterCall("get_ip_stats", ip, "entry")
  IN IF BlankIp(ip)
     THEN Reply([c EXCEPT !.stats = DefaultStats], <<>>)
     ELSE [c EXCEPT !.pc = "st_select"]

get_ip_stats ==
  /\ CalcFree
  /\ query.pc = "idle"
  /\ \E ip \in IpArguments : calc' = StatsEntry(ip)
  /\ UNCHANGED <<now, table, task, hist, faults, handlers, audit, query>>

get_ip_stats_select ==
  /\ calc.fn = "get_ip_stats"
  /\ calc.pc = "st_select"
  /\ calc' = Reply([calc EXCEPT !.statements = @ + 6,
                                !.stats = IpStats(audit, calc.ip_address, now)], <<>>)
  /\ UNCHANGED <<now, table, task, hist, faults, handlers, audit, query>>

\* mutant: the distinct-identity rule is tried first
FirstRules_UsersFirst(c, stats) ==
  IF "requests_per_minute" \notin DOMAIN stats
  THEN Reply(c, <<FALSE, "Error">>)
  ELSE IF stats.unique_users > ip_suspicious_unique_users
       THEN Reply(c, <<TRUE, "Requests from many different users">>)
       ELSE IF stats.requests_per_minute > ip_suspicious_req_per_min
            THEN Reply(c, <<TRUE, "High request rate">>)
            ELSE IF stats.abuse_score_avg > Frac(7, 10)
                 THEN Reply(c, <<TRUE, "High average abuse score">>)
                 ELSE [c EXCEPT !.pc = "su_blocked"]

\* lines 251-263: the rules decided on the stats alone; stats without the
\* key raise KeyError, which line 291 turns into (False, "Error: ...")
FirstRules(c, stats) ==
  IF "requests_per_minute" \notin DOMAIN stats
  THEN Reply(c, <<FALSE, "Error">>)
  ELSE IF stats.requests_per_minute > ip_suspicious_req_per_min
       THEN Reply(c, <<TRUE, "High request rate">>)
       ELSE IF stats.abuse_score_avg > Frac(7, 10)
            THEN Reply(c, <<TRUE, "High average abuse score">>)
            ELSE [c EXCEPT !.pc = "su_blocked"]

\* lines 241-246: a blank address is not suspicious, and nothing is read
is_ip_suspicious ==
  /\ CalcFree
  /\ query.pc = "idle"
  /\ \E ip \in IpArguments :
       LET c == LimiterCall("is_ip_suspicious", ip, "entry")
       IN calc' = IF BlankIp(ip)
                  THEN Reply(c, <<FALSE, "">>)
                  ELSE [c EXCEPT !.pc = "su_stats"]
  /\ UNCHANGED <<now, table, task, hist, faults, handlers, audit, query>>

\* line 249: stats = await self.get_ip_stats(ip_address), then lines 251-263
is_ip_suspicious_stats ==
  /\ calc.fn = "is_ip_suspicious"
  /\ calc.pc = "su_stats"
  /\ LET stats == IpStats(audit, calc.ip_address, now)
     IN calc' = FirstRules([calc EXCEPT !.statements = @ + 6, !.stats = stats], stats)
  /\ UNCHANGED <<now, table, task, hist, faults, handlers, audit, query>>

\* lines 265-289: the count of blocked requests and the last two rules
is_ip_suspicious_blocked ==
  /\ calc.fn = "is_ip_suspicious"
  /\ calc.pc = "su_blocked"
  /\ LET blocked_count ==
           Count(audit, {r \in DOMAIN audit : /\ r.ip_address = calc.ip_address
                                               /\ r.is_blocked
                                               /\ r.created_at >= now - one_hour})
         c == [calc EXCEPT !.statements = @ + 1]
     IN calc' = IF blocked_count > MaxBlockedCount
                THEN Reply(c, <<TRUE, "Multiple blocked requests">>)
                ELSE IF c.stats.unique_users > ip_suspicious_unique_users
                     THEN Reply(c, <<TRUE, "Requests from many different users">>)
                     ELSE Reply(c, <<FALSE, "No suspicious patterns detected">>)
  /\ UNCHANGED <<now, table, task, hist, faults, handlers, audit, query>>

\* a statement of the limiter raises: lines 96-99, 217-222 and 291-293
LimiterRaises ==
  /\ faults < MaxFaults
  /\ calc.fn \in {"check_rate_limit", "get_ip_stats", "is_ip_suspicious"}
  /\ calc.pc \in {"rl_select", "st_select", "su_stats", "su_blocked"}
  /\ faults' = faults + 1
  /\ LET c == [calc EXCEPT !.raised = TRUE, !.statements = @ + 1]
     IN calc' = CASE c.pc = "rl_select" -> Reply(c, <<FALSE, 0>>)
                  [] c.pc = "st_select" -> Reply([c EXCEPT !.stats = ErrorStats], <<>>)
                  [] c.pc = "su_stats"  -> FirstRules([c EXCEPT !.stats = ErrorStats],
                                                      ErrorStats)
                  [] c.pc = "su_blocked" -> Reply(c, <<FALSE, "Error">>)
  /\ UNCHANGED <<now, table, task, hist, handlers, audit, query>>

\* the identities seen from an address
AuditUsers ==
  <<"u1", "u2", "u3", "u4", "u5", "u6", "u7", "u8", "u9", "u10", "u11">>

\* a log: `recent' rows of IpA in this minute, `blocked' blocked ones within
\* the hour, one row older than a day for each of `users' identities, all
\* with the same abuse score, and `other' rows of IpB in this minute
LogOf(t, recent, blocked, users, abuse_score, other) ==
  LET copies ==
        {<<AuditRow("u1", IpA, t, FALSE, "", abuse_score), recent>>,
         <<AuditRow("u1", IpA, t - one_hour, TRUE, "quota_exceeded", abuse_score),
           blocked>>,
         <<AuditRow("u1", IpB, t, FALSE, "", 0), other>>}
        \cup {<<AuditRow(AuditUsers[k], IpA, t - one_day - 1, FALSE, "", abuse_score),
                1>> : k \in 1..users}
      present == {c \in copies : c[2] > 0}
  IN [r \in {c[1] : c \in present} |->
        (CHOOSE c \in present : c[1] = r)[2]]

RequestCounts == {0, 1, 5, 6, 99, 100, 150, 200, 201}
BlockedCounts == {0, 5, 6}
UserCounts    == {0, 10, 11}
OtherCounts   == {0, 150}
AbuseScores   == {0, Frac(8, 10)}

\* the limiter over a log that holds rows of every age
InitLimiter ==
  /\ now = one_day + 1
  /\ table = [u \in Users |-> NoRow]
  /\ task = [p \in Procs |-> Idle]
  /\ hist = [u \in Users |-> Fresh(NoRow)]
  /\ faults = 0
  /\ handlers = 1
  /\ audit \in {LogOf(one_day + 1, recent, blocked, users, score, other) :
                  recent \in RequestCounts, blocked \in BlockedCounts,
                  users \in UserCounts, score \in AbuseScores,
                  other \in OtherCounts}
  /\ query = NoQuery
  /\ calc = NoCalc

NextLimiter ==
  \/ check_rate_limit
  \/ check_rate_limit_select
  \/ get_ip_stats
  \/ get_ip_stats_select
  \/ is_ip_suspicious
  \/ is_ip_suspicious_stats
  \/ is_ip_suspicious_blocked
  \/ LimiterRaises

SpecLimiter == InitLimiter /\ [][NextLimiter]_vars

(* ------------------------- FingerprintAnalyzer ------------------------ *)
\* fingerprint.py lines 35-46
SUSPICIOUS_UA_KEYWORDS ==
  {<<"h", "e", "a", "d", "l", "e", "s", "s">>,
   <<"p", "h", "a", "n", "t", "o", "m">>,
   <<"s", "e", "l", "e", "n", "i", "u", "m">>,
   <<"p", "u", "p", "p", "e", "t", "e", "e", "r">>,
   <<"p", "l", "a", "y", "w", "r", "i", "g", "h", "t">>,
   <<"w", "e", "b", "d", "r", "i", "v", "e", "r">>,
   <<"b", "o", "t">>,
   <<"c", "r", "a", "w", "l", "e", "r">>,
   <<"s", "p", "i", "d", "e", "r">>,
   <<"s", "c", "r", "a", "p", "e", "r">>}

\* lines 49-56
SUSPICIOUS_UA_SERVICES ==
  {<<"t", "o", "r", "p", "r", "o", "j", "e", "c", "t">>,
   <<"v", "p", "n">>,
   <<"p", "r", "o", "x", "y">>,
   <<"a", "n", "o", "n", "y", "m", "o", "u", "s">>,
   <<"h", "i", "d", "e">>,
   <<"u", "n", "b", "l", "o", "c", "k", "e", "r">>}

\* line 213
legitimate_browsers ==
  {<<"c", "h", "r", "o", "m", "e">>,
   <<"f", "i", "r", "e", "f", "o", "x">>,
   <<"s", "a", "f", "a", "r", "i">>,
   <<"e", "d", "g", "e">>,
   <<"o", "p", "e", "r", "a">>}

\* the User-Agent headers of the requests
UaHeadless == <<"H", "e", "a", "d", "l", "e", "s", "s", "C", "h", "r", "o", "m", "e">>
UaBrowser == <<"M", "o", "z", "i", "l", "l", "a", " ", "F", "i", "r", "e", "f", "o", "x">>
UaVpnBrowser == <<"N", "o", "r", "d", "V", "P", "N", " ", "C", "h", "r", "o", "m", "e">>
UaRobot == <<"R", "o", "b", "o", "t", " ", "S", "a", "f", "a", "r", "i">>
UaCurl == <<"c", "u", "r", "l">>
UaProxy == <<"S", "q", "u", "i", "d", " ", "P", "r", "o", "x", "y">>

UserAgents == {None, <<>>, UaHeadless, UaBrowser, UaVpnBrowser, UaRobot, UaCurl, UaProxy}

UpperCase == <<"A", "B", "C", "D", "E", "F", "G", "H", "I", "J", "K", "L", "M",
               "N", "O", "P", "Q", "R", "S", "T", "U", "V", "W", "X", "Y", "Z">>
LowerCase == <<"a", "b", "c", "d", "e", "f", "g", "h", "i", "j", "k", "l", "m",
               "n", "o", "p", "q", "r", "s", "t", "u", "v", "w", "x", "y", "z">>

\* str.lower()
Lower(s) ==
  [i \in 1..Len(s) |->
     IF \E k \in 1..Len(UpperCase) : UpperCase[k] = s[i]
     THEN LowerCase[CHOOSE k \in 1..Len(UpperCase) : UpperCase[k] = s[i]]
     ELSE s[i]]

\* `word in s'
Contains(s, word) ==
  \E i \in 1..(Len(s) - Len(word) + 1) : SubSeq(s, i, i + Len(word) - 1) = word

\* `x or ""'
OrEmpty(s) == IF Falsy(s) THEN <<>> ELSE s

\* mutant: a browser name clears the header before the keywords are tried
AnalyzeUserAgent_BrowserFirst(user_agent) ==
  LET ua_lower == Lower(user_agent)
  IN IF Falsy(user_agent) THEN Frac(1, 10)
     ELSE IF \E w \in legitimate_browsers : Contains(ua_lower, w) THEN 0
     ELSE IF \E w \in SUSPICIOUS_UA_KEYWORDS : Contains(ua_lower, w) THEN Frac(7, 10)
     ELSE IF \E w \in SUSPICIOUS_UA_SERVICES : Contains(ua_lower, w) THEN Frac(5, 10)
     ELSE Frac(2, 10)

\* lines 191-222: _analyze_user_agent
AnalyzeUserAgent(user_agent) ==
  LET ua_lower == Lower(user_agent)
  IN IF Falsy(user_agent) THEN Frac(1, 10)
     ELSE IF \E w \in SUSPICIOUS_UA_KEYWORDS : Contains(ua_lower, w) THEN Frac(7, 10)
     ELSE IF \E w \in SUSPICIOUS_UA_SERVICES : Contains(ua_lower, w) THEN Frac(5, 10)
     ELSE IF \E w \in legitimate_browsers : Contains(ua_lower, w) THEN 0
     ELSE Frac(2, 10)

\* lines 224-250: _analyze_request_rate, the rate in tenths of a request
AnalyzeRequestRate(tenths) ==
  IF tenths <= 5 THEN 0
  ELSE IF tenths <= 20 THEN Frac(1, 10)
  ELSE IF tenths <= 50 THEN Frac(3, 10)
  ELSE IF tenths <= 100 THEN Frac(6, 10)
  ELSE Min(Unit, Frac(tenths, 500))

\* lines 252-283: _analyze_ip_rotation
AnalyzeIpRotation(current_ip, previous_ips) ==
  LET different_ips ==
        Cardinality({i \in 1..Len(previous_ips) : previous_ips[i] # current_ip})
      n == Len(previous_ips)
  IN IF n = 0 THEN 0
     ELSE IF 100 * different_ips <= 5 * n THEN 0
     ELSE IF 10 * different_ips <= 2 * n THEN Frac(2, 10)
     ELSE IF 10 * different_ips <= 5 * n THEN Frac(6, 10)
     ELSE Frac(9, 10)

\* lines 62-108: generate_fingerprint; the digest stands for what it hashes
GenerateFingerprint(user_agent, ip_address) ==
  <<Strip(Lower(OrEmpty(user_agent))), OrEmpty(ip_address)>>

\* lines 285-318: _analyze_fingerprint_consistency
AnalyzeFingerprintConsistency(current_fingerprint, previous_fingerprints) ==
  LET matching ==
        Cardinality({i \in 1..Len(previous_fingerprints) :
                       previous_fingerprints[i] = current_fingerprint})
      n == Len(previous_fingerprints)
  IN IF n = 0 THEN Frac(1, 10)
     ELSE IF 10 * matching >= 9 * n THEN 0
     ELSE IF 10 * matching >= 7 * n THEN Frac(1, 10)
     ELSE IF 10 * matching >= 5 * n THEN Frac(3, 10)
     ELSE Frac(6, 10)

\* the arguments of compute_abuse_score, with the defaults of lines 114-119
AbuseArguments(user_agent, ip_address, ip_reputation) ==
  [user_agent |-> user_agent, ip_address |-> ip_address, request_rate |-> 0,
   previous_ips |-> <<>>, previous_fingerprints |-> <<>>,
   ip_reputation |-> ip_reputation, tokens_consumed |-> 0, max_tokens |-> 5000]

\* mutant: the sum of the factors is returned as it is
AbuseScore_NoCap(a) ==
  Scale(AnalyzeUserAgent(OrEmpty(a.user_agent)), 25, 100)
    + Scale(AnalyzeRequestRate(a.request_rate), 30, 100)
    + Scale(a.ip_reputation, 25, 100)
    + (IF a.previous_ips # <<>> /\ ~Falsy(a.ip_address)
       THEN Scale(AnalyzeIpRotation(a.ip_address, a.previous_ips), 15, 100) ELSE 0)
    + (IF a.tokens_consumed > 0 /\ a.max_tokens > 0
       THEN Scale(Min(Unit, 2 * Frac(a.tokens_consumed, a.max_tokens)), 10, 100)
       ELSE 0)
    + (IF a.previous_fingerprints # <<>>
       THEN Scale(AnalyzeFingerprintConsistency(
                    GenerateFingerprint(a.user_agent, a.ip_address),
                    a.previous_fingerprints), 10, 100)
       ELSE 0)

\* lines 110-189: compute_abuse_score
AbuseScore(a) == Min(Unit, AbuseScore_NoCap(a))

(* ------------------------- get_reputation_score ----------------------- *)
\* dict.get(key, default)
Get(stats, key, default) == IF key \in DOMAIN stats THEN stats[key] ELSE default

\* mutant: the sum of the factors is returned as it is
ReputationScore_NoCap(stats) ==
  LET requests_per_min == Get(stats, "requests_per_minute", 0)
      avg_abuse == Get(stats, "abuse_score_avg", 0)
      total_requests == Get(stats, "total_requests", 1)
      blocked_ratio == Frac(Get(stats, "requests_today", 0), Max(total_requests, 1))
      unique_users == Get(stats, "unique_users", 0)
  IN (IF requests_per_min > ip_rate_limit_requests
      THEN Min(Frac(4, 10),
               Frac(requests_per_min - ip_rate_limit_requests, ip_rate_limit_requests))
      ELSE 0)
       + Scale(avg_abuse, 4, 10)
       + Min(Frac(3, 10), Scale(blocked_ratio, 3, 10))
       + (IF unique_users > 10 THEN Min(Frac(2, 10), Frac(unique_users - 10, 100))
          ELSE 0)

\* ip_limiter.py lines 295-342: get_reputation_score
ReputationScore(stats) == Min(Unit, ReputationScore_NoCap(stats))

(* ------------------------ the scoring functions ----------------------- *)
\* the stats handed to get_reputation_score: none, those of a failed
\* get_ip_stats, and full ones
StatsInputs ==
  {<<>>, ErrorStats} \cup
  {[DefaultStats EXCEPT !.requests_per_minute = r, !.abuse_score_avg = a,
                        !.total_requests = t[1], !.requests_today = t[2],
                        !.unique_users = u] :
     r \in {0, 100, 101, 120, 140, 150, 300},
     a \in {0, Frac(1, 2), Unit},
     t \in {<<0, 0>>, <<1, 1>>, <<2, 1>>, <<10, 5>>, <<4, 0>>},
     u \in {0, 10, 11, 20, 30, 40, 110}}

ReputationInputs ==
  {[fn |-> "get_reputation_score", stats |-> s, done |-> FALSE, out |-> 0] :
     s \in StatsInputs}

get_reputation_score ==
  /\ calc.fn = "get_reputation_score"
  /\ ~calc.done
  /\ calc' = [calc EXCEPT !.done = TRUE, !.out = ReputationScore(calc.stats)]
  /\ UNCHANGED <<now, table, task, hist, faults, handlers, audit, query>>

\* the arguments of compute_abuse_score: rates in tenths of a request per
\* minute, histories of addresses and of fingerprints, consumption and limit
AbuseInputs ==
  {[fn |-> "compute_abuse_score",
    args |-> [AbuseArguments(ua, ip, rep) EXCEPT
                !.request_rate = rate, !.previous_ips = ips,
                !.previous_fingerprints = fps,
                !.tokens_consumed = used[1], !.max_tokens = used[2]],
    done |-> FALSE, out |-> 0] :
     ua \in UserAgents,
     ip \in {None, IpA},
     rate \in {0 - 10, 0, 5, 20, 50, 100, 110, 250, 500, 600},
     ips \in {<<>>, <<IpA>>, <<IpB>>, <<IpA, IpB>>, <<IpA, IpA, IpA, IpA, IpB>>},
     fps \in {<<>>, <<GenerateFingerprint(UaBrowser, IpA)>>,
              <<GenerateFingerprint(UaCurl, IpB)>>,
              <<GenerateFingerprint(UaBrowser, IpA), GenerateFingerprint(UaCurl, IpB)>>},
     rep \in {0 - Unit, 0, Frac(1, 2), Unit, 2 * Unit},
     used \in {<<0 - 25, 100>>, <<0, 100>>, <<25, 100>>, <<50, 100>>, <<100, 100>>,
               <<50, 0>>}}

compute_abuse_score ==
  /\ calc.fn = "compute_abuse_score"
  /\ ~calc.done
  /\ calc' = [calc EXCEPT !.done = TRUE, !.out = AbuseScore(calc.args)]
  /\ UNCHANGED <<now, table, task, hist, faults, handlers, audit, query>>

\* the rates handed to _analyze_request_rate, in tenths of a request per
\* minute, up to 60 requests per minute
MaxRate == 600

RateInputs ==
  {[fn |-> "_analyze_request_rate", requests_per_minute |-> r, done |-> FALSE,
    out |-> 0] : r \in (0 - 10)..MaxRate}

analyze_request_rate ==
  /\ calc.fn = "_analyze_request_rate"
  /\ ~calc.done
  /\ calc' = [calc EXCEPT !.done = TRUE,
                          !.out = AnalyzeRequestRate(calc.requests_per_minute)]
  /\ UNCHANGED <<now, table, task, hist, faults, handlers, audit, query>>

\* a function of the scorers applied once to arguments drawn at the start
InitScores ==
  /\ now = 0
  /\ table = [u \in Users |-> NoRow]
  /\ task = [p \in Procs |-> Idle]
  /\ hist = [u \in Users |-> Fresh(NoRow)]
  /\ faults = 0
  /\ handlers = 1
  /\ audit = NoRows
  /\ query = NoQuery
  /\ calc \in StatusInputs \cup ReputationInputs \cup AbuseInputs \cup RateInputs

NextScores ==
  \/ quota_status_report
  \/ get_reputation_score
  \/ compute_abuse_score
  \/ analyze_request_rate

SpecScores == InitScores /\ [][NextScores]_vars

(* ------------------------ DemoAgent.process_query --------------------- *)
\* settings.demo_tokens_per_request, in the unit of max_tokens
demo_tokens_per_request == 1

\* process_query calls served from the initial state
MaxQueries == 2

\* the handler whose frame in `task' holds the calls of the quota engine
Handler == 1

\* settings.abuse_score_block_threshold: ge=0.5, le=1.0, default 0.9
Thresholds == {Frac(5, 10), Frac(9, 10), Unit}

Settings == [enable_fingerprint : BOOLEAN, abuse_score_block_threshold : Thresholds]

\* the addresses and user agents the route hands over
QueryIps == {None, <<>>, Blank, IpA}

QueryAgents == {None, UaHeadless, UaBrowser}

\* lines 88-95: the score process_query computes from a user agent, an
\* address and the stats of the address
FlowScore(user_agent, ip_address, stats) ==
  AbuseScore(AbuseArguments(user_agent, ip_address, ReputationScore(stats)))

\* lines 99-117: a score above the threshold ends the call
AbuseVerdict(q, abuse_score) ==
  IF abuse_score > q.settings.abuse_score_block_threshold
  THEN [q EXCEPT !.pc = "audit", !.block_reason = "suspicious_behavior",
                 !.abuse_score = abuse_score, !.logged_score = abuse_score]
  ELSE [q EXCEPT !.pc = "step3", !.abuse_score = abuse_score]

\* line 55: `if settings.enable_fingerprint and ip_address'
FirstStage(q) == q.settings.enable_fingerprint /\ ~Falsy(q.ip_address)

\* mutant: a denial by the limiter is only noted
RateLimitVerdict_GoOn(q, ip_allowed) == [q EXCEPT !.pc = "step2"]

\* lines 57-77: a denial by the limiter ends the call
RateLimitVerdict(q, ip_allowed) ==
  IF ip_allowed
  THEN [q EXCEPT !.pc = "step2"]
  ELSE [q EXCEPT !.pc = "audit", !.block_reason = "rate_limit_ip"]

\* lines 40-52: the call and its locals; audit_before is the size of the
\* log when the call starts, tokens_before and requests_before the counters
\* of the identity's row
process_query ==
  /\ query.pc \in {"idle", "done"}
  /\ query.served < MaxQueries
  /\ \E u \in DOMAIN table, ip \in QueryIps, ua \in QueryAgents :
       query' = [pc |-> "step1", settings |-> query.settings,
                 served |-> query.served + 1,
                 user_key |-> u, ip_address |-> ip, user_agent |-> ua,
                 stages |-> <<>>, abuse_score |-> 0, logged_score |-> 0,
                 tokens_used |-> 0, percentage_used |-> 0, block_reason |-> "",
                 audit_before |-> BagCardinality(audit), audit_failed |-> FALSE,
                 tokens_before |-> table[u].tokens_consumed,
                 requests_before |-> table[u].requests_count]
  /\ calc' = NoCalc
  /\ task' = [task EXCEPT ![Handler] = Idle]
  /\ UNCHANGED <<now, table, hist, faults, handlers, audit>>

\* lines 55-56: step 1 calls check_rate_limit, or is skipped
process_query_step1 ==
  /\ query.pc = "step1"
  /\ IF FirstStage(query)
     THEN /\ calc' = RateLimitEntry(LimiterCall("check_rate_limit", query.ip_address,
                                                "entry"))
          /\ query' = [query EXCEPT !.pc = "rate_limit", !.stages = Append(@, "ip")]
     ELSE /\ query' = [query EXCEPT !.pc = "step2"]
          /\ UNCHANGED calc
  /\ UNCHANGED <<now, table, task, hist, faults, handlers, audit>>

process_query_rate_limit ==
  /\ query.pc = "rate_limit"
  /\ calc.pc = "done"
  /\ query' = RateLimitVerdict(query, calc.out[1])
  /\ UNCHANGED <<now, table, task, hist, faults, handlers, audit, calc>>

\* lines 80-88: step 2 calls get_ip_stats(ip_address or ""), or is skipped
process_query_step2 ==
  /\ query.pc = "step2"
  /\ IF query.settings.enable_fingerprint
     THEN /\ calc' = StatsEntry(OrEmpty(query.ip_address))
          /\ query' = [query EXCEPT !.pc = "stats", !.stages = Append(@, "abuse")]
     ELSE /\ query' = [query EXCEPT !.pc = "step3"]
          /\ UNCHANGED calc
  /\ UNCHANGED <<now, table, task, hist, faults, handlers, audit>>

\* lines 89-117: the reputation, the abuse score and its verdict
process_query_abuse_score ==
  /\ query.pc = "stats"
  /\ calc.pc = "done"
  /\ query' = AbuseVerdict(query,
                           FlowScore(query.user_agent, query.ip_address, calc.stats))
  /\ UNCHANGED <<now, table, task, hist, faults, handlers, audit, calc>>

\* lines 120-124: step 3 calls check_quota
process_query_step3 ==
  /\ query.pc = "step3"
  /\ task' = [task EXCEPT ![Handler] =
                [Idle EXCEPT !.pc = "cq_select", !.op = "check_quota",
                             !.user_key = query.user_key,
                             !.amount = demo_tokens_per_request]]
  /\ query' = [query EXCEPT !.pc = "check_quota", !.stages = Append(@, "quota")]
  /\ UNCHANGED <<now, table, hist, faults, handlers, audit, calc>>

\* lines 126-127 and 149-153: a refusal asks for the status, a grant goes on
\* to the model
process_query_quota ==
  /\ query.pc = "check_quota"
  /\ task[Handler].pc = "done"
  /\ IF task[Handler].can
     THEN /\ query' = [query EXCEPT !.pc = "gemini"]
          /\ UNCHANGED task
     ELSE /\ query' = [query EXCEPT !.pc = "quota_status"]
          /\ task' = [task EXCEPT ![Handler] =
                        [Idle EXCEPT !.pc = "gs_select", !.op = "get_quota_status",
                                     !.user_key = query.user_key]]
  /\ UNCHANGED <<now, table, hist, faults, handlers, audit, calc>>

\* lines 128-147
process_query_quota_exceeded ==
  /\ query.pc = "quota_status"
  /\ task[Handler].pc = "done"
  /\ query' = [query EXCEPT !.pc = "audit", !.block_reason = "quota_exceeded"]
  /\ UNCHANGED <<now, table, task, hist, faults, handlers, audit, calc>>

\* lines 156-169: the model answers and step 7 calls deduct_tokens
generate_response ==
  /\ query.pc = "gemini"
  /\ \E tokens_used \in 1..MaxCost :
       /\ query' = [query EXCEPT !.pc = "deduct", !.tokens_used = tokens_used]
       /\ task' = [task EXCEPT ![Handler] =
                     [Idle EXCEPT !.pc = "dd_update", !.op = "deduct_tokens",
                                  !.user_key = query.user_key,
                                  !.amount = tokens_used, !.now = now]]
  /\ UNCHANGED <<now, table, hist, faults, handlers, audit, calc>>

\* mutant: the failed model call is charged one token and nothing is refunded
generate_response_raises_Charged ==
  /\ query.pc = "gemini"
  /\ table' = [table EXCEPT ![query.user_key] = DeductRow(@, 1, now + cooldown_hours)]
  /\ query' = [query EXCEPT !.pc = "audit", !.block_reason = "internal_error"]
  /\ UNCHANGED <<now, task, hist, faults, handlers, audit, calc>>

\* lines 171-178 and 215-225: the model call raises while tokens_used is
\* still 0; nothing is refunded and the outer handler takes over
generate_response_raises ==
  /\ query.pc = "gemini"
  /\ query' = [query EXCEPT !.pc = "audit", !.block_reason = "internal_error"]
  /\ UNCHANGED <<now, table, task, hist, faults, handlers, audit, calc>>

\* line 181: step 8 calls get_quota_status
process_query_deducted ==
  /\ query.pc = "deduct"
  /\ task[Handler].pc = "done"
  /\ query' = [query EXCEPT !.pc = "warning"]
  /\ task' = [task EXCEPT ![Handler] =
                [Idle EXCEPT !.pc = "gs_select", !.op = "get_quota_status",
                             !.user_key = query.user_key]]
  /\ UNCHANGED <<now, table, hist, faults, handlers, audit, calc>>

\* lines 182-193: percentage_used of the status; 0 when the status is the
\* default of a missing row or of a failed read
process_query_warning ==
  /\ query.pc = "warning"
  /\ task[Handler].pc = "done"
  /\ LET t == task[Handler]
     IN query' = [query EXCEPT
                    !.pc = "audit", !.logged_score = query.abuse_score,
                    !.percentage_used =
                       IF t.raised \/ ~t.result.present THEN 0
                       ELSE WarningReport(t.result.tokens_consumed,
                                          max_tokens).percentage_used]
  /\ UNCHANGED <<now, table, task, hist, faults, handlers, audit, calc>>

\* lines 229-269: the INSERT of _log_audit and the return of process_query
log_audit ==
  /\ query.pc = "audit"
  /\ audit' = InsertAudit(audit,
                          AuditRow(query.user_key, query.ip_address, now,
                                   query.block_reason # "", query.block_reason,
                                   query.logged_score))
  /\ query' = [query EXCEPT !.pc = "done"]
  /\ UNCHANGED <<now, table, task, hist, faults, handlers, calc>>

\* lines 270-271: the INSERT raises and the error is only logged
log_audit_raises ==
  /\ query.pc = "audit"
  /\ faults < MaxFaults
  /\ faults' = faults + 1
  /\ query' = [query EXCEPT !.pc = "done", !.audit_failed = TRUE]
  /\ UNCHANGED <<now, table, task, hist, handlers, audit, calc>>

\* a demo_usage row that the limit has blocked
ExhaustedRow(t) == DeductRow(InsertRow("UTC", t), max_tokens, t + cooldown_hours)

\* the logs a deployment starts from: none, one short of the limit for IpA,
\* and one of an address with a history of blocked requests
QueryLogs(t) ==
  {NoRows, LogOf(t, ip_rate_limit_requests - 1, 0, 0, 0, 0),
   LogOf(t, 4, 6, 11, Frac(8, 10), 0)}

\* process_query one call after the other, for every setting, on a store
\* whose statements may raise
InitQuery ==
  /\ now = one_day + 1
  /\ table \in [Users -> {NoRow, ExhaustedRow(one_day + 1)}]
  /\ task = [p \in Procs |-> Idle]
  /\ hist = [u \in Users |-> Fresh(table[u])]
  /\ faults = 0
  /\ handlers = 1
  /\ audit \in QueryLogs(one_day + 1)
  /\ query \in {[pc |-> "idle", settings |-> s, served |-> 0] : s \in Settings}
  /\ calc = NoCalc

NextQuery ==
  \/ process_query
  \/ process_query_step1
  \/ check_rate_limit_select
  \/ process_query_rate_limit
  \/ process_query_step2
  \/ get_ip_stats_select
  \/ LimiterRaises
  \/ process_query_abuse_score
  \/ process_query_step3
  \/ check_quota_select(Handler)
  \/ check_quota_insert(Handler)
  \/ process_query_quota
  \/ get_quota_status_select(Handler)
  \/ process_query_quota_exceeded
  \/ generate_response
  \/ generate_response_raises
  \/ deduct_tokens_update(Handler)
  \/ StoreRaises(Handler)
  \/ process_query_deducted
  \/ process_query_warning
  \/ log_audit
  \/ log_audit_raises

SpecQuery == InitQuery /\ [][NextQuery]_vars

(* ------------- process_query, steps 3 to 7, handlers at once ---------- *)
\* deductions per identity between two writes of requests_count = 0
MaxPaid == 3

\* lines 120-124: step 3 of a request served by handler p
query_check_quota(p) ==
  /\ Free(p)
  /\ \E u \in DOMAIN table :
       task' = [task EXCEPT ![p] =
                  [Idle EXCEPT !.pc = "cq_select", !.op = "check_quota",
                               !.user_key = u, !.amount = demo_tokens_per_request]]
  /\ UNCHANGED <<now, table, hist, faults, handlers, rest>>

\* lines 126 and 156-169: check_quota let the request proceed, the model has
\* answered and step 7 calls deduct_tokens
query_deduct_tokens(p) ==
  /\ p <= handlers
  /\ task[p].pc = "done"
  /\ task[p].op = "check_quota"
  /\ task[p].can
  /\ \E tokens_used \in 1..MaxCost :
       LET u == task[p].user_key
       IN /\ table[u].requests_count + InFlight(u) < MaxPaid
          /\ task' = [task EXCEPT ![p] =
                        [Idle EXCEPT !.pc = "dd_update", !.op = "deduct_tokens",
                                     !.user_key = u, !.amount = tokens_used,
                                     !.now = now]]
  /\ UNCHANGED <<now, table, hist, faults, handlers, rest>>

\* requests of one identity served by two handlers at once, each charging
\* only after check_quota let it proceed; the store does not raise
InitFlows ==
  /\ now = 0
  /\ table = [u \in Users |-> NoRow]
  /\ task = [p \in Procs |-> Idle]
  /\ hist = [u \in Users |-> Fresh(NoRow)]
  /\ faults = MaxFaults
  /\ handlers = NumProcs
  /\ audit = NoRows
  /\ query = NoQuery
  /\ calc = NoCalc

NextFlows ==
  \/ Tick
  \/ \E p \in Procs :
       \/ query_check_quota(p)
       \/ check_quota_select(p)
       \/ check_quota_insert(p)
       \/ check_quota_insert_conflict(p)
       \/ check_quota_reset(p)
       \/ check_quota_unblock(p)
       \/ query_deduct_tokens(p)
       \/ deduct_tokens_update(p)

SpecFlows == InitFlows /\ [][NextFlows]_vars

(* ------------- process_query, steps 1 and 9, handlers at once ---------- *)
\* rows of the log beyond ip_rate_limit_requests
MaxExcess == 2

\* the address of the requests and the reasons logged by a request that went
\* past step 1
FlowIp == IpA

PassedReasons == {"", "quota_exceeded", "internal_error"}

Arriving == Cardinality({q \in Procs : task[q].op = "check_rate_limit"})

\* lines 54-56: handler p takes a request of the address and calls
\* check_rate_limit, which goes on to its SELECT for a non-blank address
query_check_rate_limit(p) ==
  /\ Free(p)
  /\ BagCardinality(audit) + Arriving < ip_rate_limit_requests + MaxExcess
  /\ task' = [task EXCEPT ![p] =
                [Idle EXCEPT !.pc = "rl_select", !.op = "check_rate_limit"]]
  /\ UNCHANGED <<now, table, hist, faults, handlers, rest>>

\* ip_limiter.py lines 65-94 for the call of handler p
query_rate_limit_select(p) ==
  /\ p <= handlers
  /\ task[p].pc = "rl_select"
  /\ LET request_count == RecentRequests(audit, FlowIp, now)
     IN task' = [task EXCEPT ![p] =
                   [@ EXCEPT !.pc = "done", !.amount = request_count,
                             !.can = request_count < ip_rate_limit_requests]]
  /\ UNCHANGED <<now, table, hist, faults, handlers, rest>>

\* lines 57-77: a denied request is logged as rate_limit_ip; lines 79-227: a
\* request let through runs steps 2 to 8 and logs its row when it ends
query_log_audit(p) ==
  /\ p <= handlers
  /\ task[p].pc = "done"
  /\ task[p].op = "check_rate_limit"
  /\ \E block_reason \in IF task[p].can THEN PassedReasons ELSE {"rate_limit_ip"} :
       audit' = InsertAudit(audit, AuditRow("u1", FlowIp, now, block_reason # "",
                                            block_reason, 0))
  /\ task' = [task EXCEPT ![p] = [@ EXCEPT !.op = "process_query"]]
  /\ UNCHANGED <<now, table, hist, faults, handlers, query, calc>>

\* requests of one address served by handlers at once, over a log that holds
\* rows of requests of this minute that were let through
InitArrivals ==
  /\ now = one_day + 1
  /\ table = [u \in Users |-> NoRow]
  /\ task = [p \in Procs |-> Idle]
  /\ hist = [u \in Users |-> Fresh(NoRow)]
  /\ faults = 0
  /\ handlers \in Procs
  /\ audit \in {LogOf(one_day + 1, recent, 0, 0, 0, 0) :
                  recent \in (ip_rate_limit_requests - MaxExcess - 1)..ip_rate_limit_requests}
  /\ query = NoQuery
  /\ calc = NoCalc

NextArrivals ==
  \E p \in Procs :
    \/ query_check_rate_limit(p)
    \/ query_rate_limit_select(p)
    \/ query_log_audit(p)

SpecArrivals == InitArrivals /\ [][NextArrivals]_vars

(* ------------- a store that works and a caller that keeps asking ------- *)
\* one handler, every zone hint and estimate, on a store that never raises
InitWorking ==
  /\ now = 0
  /\ table = [u \in Users |-> NoRow]
  /\ task = [p \in Procs |-> Idle]
  /\ hist = [u \in Users |-> Fresh(NoRow)]
  /\ faults = MaxFaults
  /\ handlers = 1
  /\ audit = NoRows
  /\ query = NoQuery
  /\ calc = NoCalc

\* the statements of the calls in progress
Statement ==
  \E p \in Procs :
    \/ check_quota_select(p)
    \/ check_quota_insert(p)
    \/ check_quota_update_tz(p)
    \/ check_quota_reset(p)
    \/ check_quota_unblock(p)
    \/ deduct_tokens_update(p)
    \/ refund_tokens_update(p)
    \/ refund_tokens_unblock(p)
    \/ refund_tokens_rejected(p)
    \/ unblock_user_update(p)

\* the calls that start
Call ==
  \E p \in Procs :
    \/ check_quota(p)
    \/ deduct_tokens(p)
    \/ refund_tokens(p)
    \/ unblock_user(p)

NextWorking == Tick \/ Statement \/ Call

\* the clock advances until it stops at MaxTime, a statement that was sent
\* is answered, and check_quota is called again and again whatever else the
\* handler is asked to do
Progress ==
  /\ WF_vars(Tick)
  /\ WF_vars(Statement)
  /\ SF_vars(\E p \in Procs : check_quota(p))

SpecWorking == InitWorking /\ [][NextWorking]_vars /\ Progress

(* ======================================================================= *)
(* Properties                                                              *)
(* ======================================================================= *)
TypeOK ==
  /\ now \in 0..MaxTime
  /\ faults \in 0..MaxFaults
  /\ handlers \in Procs
  /\ \A u \in DOMAIN table : table[u].tokens_consumed \in Int

\* handler p has returned from a call of op
Returned(p, op) == task[p].pc = "done" /\ task[p].op = op

\* the rollover test of check_quota on a row r read at time t, when nothing raises
RolloverDue(r, t) ==
  IF ValidZone(r.user_timezone)
  THEN LocalDate(r.last_reset, r.user_timezone) < LocalDate(t, r.user_timezone)
  ELSE UtcDate(r.last_reset) < UtcDate(t)

\* r is blocked and its cooldown has not run out at t
ActiveBlock(r, t) == r.is_blocked /\ r.blocked_until # NULL /\ r.blocked_until > t

\* C1: deductions that commit one after another, with no other write of the
\* row between them, are all counted: tokens_consumed is the value before
\* them plus the sum of their costs, requests_count has grown by their
\* number, and the row is blocked if tokens_consumed reached the limit.
C1_NoLostUpdates ==
  \A u \in Users :
    hist[u].n > 0 =>
      /\ table[u].tokens_consumed = hist[u].base_tokens + hist[u].sum
      /\ table[u].requests_count = hist[u].base_requests + hist[u].n
      /\ (table[u].tokens_consumed >= max_tokens => table[u].is_blocked)

\* two overlapping deductions: handler 2 read the clock first and committed
\* last, and together they went over the limit
C1_Witness ==
  /\ Returned(1, "deduct_tokens") /\ Returned(2, "deduct_tokens")
  /\ task[1].path = "ok" /\ task[2].path = "ok"
  /\ task[2].now < task[1].now
  /\ hist["u1"].n = 2
  /\ hist["u1"].base_tokens + task[1].amount < max_tokens
  /\ table["u1"].tokens_consumed > max_tokens
  /\ table["u1"].blocked_until = task[2].now + cooldown_hours

C3_OneResetPerRollover ==
  [][\A p \in Procs :
       LET u == task[p].user_key IN
       (/\ task[p].pc \in {"cq_reset", "cq_reset_utc"}
        /\ task'[p].path = "reset")
       => \/ RolloverDue(table[u], task[p].now)
          \/ hist[u].n = 0
          \/ table[u].tokens_consumed = 0]_vars

EstimateExceedsRemainder(p) ==
  LET t == task[p]
      r == t.result
  IN /\ Returned(p, "check_quota") /\ r.present /\ ~t.raised
     /\ ~r.is_blocked /\ ~RolloverDue(r, t.now)
     /\ max_tokens - r.tokens_consumed > 0
     /\ max_tokens - r.tokens_consumed < t.amount

C7_ActiveBlockDenies ==
  [][\A p \in Procs :
       LET t == task'[p]
           u == t.user_key
       IN (/\ task[p] # t
           /\ t.op = "check_quota" /\ t.pc # "cq_select" /\ ~t.raised
           /\ t.result.present
           /\ ActiveBlock(t.result, t.now) /\ ~RolloverDue(t.result, t.now))
          => /\ table'[u].tokens_consumed = table[u].tokens_consumed
             /\ table'[u].requests_count = table[u].requests_count
             /\ table'[u].is_blocked = table[u].is_blocked
             /\ table'[u].blocked_until = table[u].blocked_until
             /\ table'[u].last_reset = table[u].last_reset
             /\ (t.pc = "done" => ~t.can)]_vars

\* a blocked caller that passed a new zone: the zone was stored, the request
\* was refused and the row is still blocked
C7_Witness ==
  LET t == task[1] IN
  /\ Returned(1, "check_quota") /\ t.path = "blocked" /\ ~t.can
  /\ t.user_timezone # "" /\ t.user_timezone # t.result.user_timezone
  /\ table["u1"].user_timezone = t.user_timezone
  /\ table["u1"].is_blocked
  /\ table["u1"].blocked_until = t.result.blocked_until
  /\ table["u1"].tokens_consumed = t.result.tokens_consumed

\* C8: a check_quota that finds no row inserts one with tokens_consumed = 0,
\* requests_count = 0, is_blocked = false and the caller's zone (UTC when
\* none is passed), and returns (true, max_tokens - tokens_needed).
C8_NewRecord ==
  \A p \in Procs :
    LET t == task[p]
        row == table[t.user_key]
    IN (Returned(p, "check_quota") /\ ~t.result.present /\ ~t.raised)
       => /\ row.present
          /\ row.tokens_consumed = 0 /\ row.requests_count = 0
          /\ ~row.is_blocked /\ row.blocked_until = NULL
          /\ row.user_timezone =
               (IF t.user_timezone # "" THEN t.user_timezone ELSE "UTC")
          /\ t.can /\ t.rem = max_tokens - t.amount

C8_Witness ==
  LET t == task[1] IN
  /\ Returned(1, "check_quota") /\ ~t.result.present /\ t.path = "new"
  /\ t.user_timezone = "Asia/Tokyo"
  /\ table["u1"].present /\ table["u1"].user_timezone = "Asia/Tokyo"
  /\ t.amount = MaxNeeded /\ t.rem = max_tokens - MaxNeeded

\* C9: a check_quota in which a store statement raised returns
\* (true, max_tokens); a deduct_tokens whose statement raised, or matched no
\* row, returns max_tokens.
C9_FailOpen ==
  \A p \in Procs :
    LET t == task[p] IN
    /\ (Returned(p, "check_quota") /\ t.raised) => (t.can /\ t.rem = max_tokens)
    /\ (Returned(p, "deduct_tokens") /\ (t.raised \/ t.path = "notfound"))
         => t.rem = max_tokens

\* C10: what get_quota_status reports as tokens_remaining is between 0 and
\* max_tokens, and is max(0, max_tokens - tokens_consumed) of the row read;
\* the same holds of the status of every row the calls can produce.
C10_RemainingInRange ==
  /\ \A u \in Users :
       QuotaStatus(table[u]).tokens_remaining \in 0..max_tokens
  /\ \A p \in Procs :
       LET t == task[p] IN
       Returned(p, "get_quota_status") =>
         /\ t.rem \in 0..max_tokens
         /\ (t.path = "found") =>
              t.rem = Max(0, max_tokens - t.result.tokens_consumed)

\* the status of a row that went over the limit
C10_Witness ==
  LET t == task[1] IN
  /\ Returned(1, "get_quota_status") /\ t.path = "found"
  /\ t.result.tokens_consumed > max_tokens
  /\ t.rem = 0

\* C11: every remaining-tokens figure that check_quota (new, reset, blocked
\* and normal paths), deduct_tokens and refund_tokens return when no
\* statement raised is >= 0.
C11_RemainingNonNegative ==
  \A p \in Procs :
    LET t == task[p] IN
    (/\ t.pc = "done" /\ ~t.raised
     /\ \/ t.op = "check_quota" /\ t.path \in {"new", "reset", "blocked", "normal"}
        \/ t.op \in {"deduct_tokens", "refund_tokens"})
    => t.rem >= 0

\* C12: in every state and under every interleaving of the calls, every row
\* has tokens_consumed >= 0 and requests_count >= 0.
C12_CountersNonNegative ==
  \A u \in DOMAIN table :
    table[u].tokens_consumed >= 0 /\ table[u].requests_count >= 0

\* a refund of more than the row held has committed while the other handler
\* was in a call, and the row is at zero
C12_Witness ==
  LET t == task[1] IN
  /\ Returned(1, "refund_tokens") /\ t.path = "ok"
  /\ InCall(2)
  /\ t.result.present /\ t.result.tokens_consumed > 0
  /\ t.amount > t.result.tokens_consumed
  /\ table["u1"].tokens_consumed = 0

\* the step is the refund statement of handler p, on an existing row, and it
\* is not one of the store failures counted in faults
RefundStatement(p) ==
  /\ task[p].op = "refund_tokens" /\ task[p].pc = "rf_update"
  /\ task'[p].pc # "rf_update"
  /\ faults' = faults
  /\ table[task[p].user_key].present

\* the step is the second statement of the refund of handler p
RefundUnblockStatement(p) ==
  /\ task[p].op = "refund_tokens" /\ task[p].pc = "rf_unblock"
  /\ task'[p].pc = "done"
  /\ faults' = faults

\* C13: a refund of X that follows a deduction of X, with no other write of
\* the row in between, puts tokens_consumed back to its value before the
\* deduction; if that value was below the limit the refund unblocks the row
\* (is_blocked = false, blocked_until = NULL).
C13_RoundTrip ==
  [][\A p \in Procs :
       LET u == task[p].user_key IN
       /\ (RefundStatement(p) /\ hist[u].n = 1 /\ hist[u].sum = task[p].amount)
          => /\ table'[u].tokens_consumed = hist[u].base_tokens
             /\ (hist[u].base_tokens < max_tokens)
                => \/ task'[p].pc = "rf_unblock"
                   \/ ~table'[u].is_blocked /\ table'[u].blocked_until = NULL
       /\ RefundUnblockStatement(p)
          => ~table'[u].is_blocked /\ table'[u].blocked_until = NULL]_vars

\* C14: the refund statement on an existing row writes tokens_consumed =
\* max(0, old - amount) in one step and the call returns
\* max(0, max_tokens - new); the block is cleared exactly when the row was
\* blocked and the new tokens_consumed is below max_tokens.
C14_RefundStatement ==
  [][\A p \in Procs :
       LET u == task[p].user_key
           old == table[u]
           new == table'[u]
       IN
       /\ RefundStatement(p)
          => /\ new.tokens_consumed = Max(0, old.tokens_consumed - task[p].amount)
             /\ task'[p].rem = Max(0, max_tokens - new.tokens_consumed)
             /\ IF old.is_blocked /\ new.tokens_consumed < max_tokens
                THEN task'[p].pc = "rf_unblock"
                ELSE /\ task'[p].pc = "done"
                     /\ new.is_blocked = old.is_blocked
                     /\ new.blocked_until = old.blocked_until
       /\ RefundUnblockStatement(p)
          => /\ ~new.is_blocked /\ new.blocked_until = NULL
             /\ new.tokens_consumed = old.tokens_consumed
             /\ task'[p].rem = Max(0, max_tokens - new.tokens_consumed)]_vars

\* C15: a refund_tokens call with an amount <= 0 returns max_tokens in the
\* step that makes the call: it never waits on a statement, and the table is
\* the same after the call as before.
C15_InvalidRefund ==
  [][\A p \in Procs :
       (/\ task'[p] # task[p]
        /\ task'[p].op = "refund_tokens"
        /\ task'[p].amount <= 0)
       => /\ task[p].pc \in {"idle", "done"}
          /\ task'[p].pc = "done"
          /\ task'[p].rem = max_tokens
          /\ table' = table
          /\ faults' = faults]_vars

\* a negative refund on a blocked row that is over the limit
C15_Witness ==
  LET t == task[1] IN
  /\ Returned(1, "refund_tokens") /\ t.path = "invalid"
  /\ t.amount < 0 /\ t.rem = max_tokens
  /\ table["u1"].is_blocked
  /\ table["u1"].tokens_consumed > max_tokens

\* handler p's check_quota read a row that is blocked for quota, whose
\* cooldown has run out, and on which no rollover is due
CooldownElapsed(p) ==
  LET t == task[p]
      r == t.result
  IN /\ Returned(p, "check_quota") /\ r.present /\ ~t.raised
     /\ r.is_blocked /\ r.tokens_consumed >= max_tokens
     /\ r.blocked_until # NULL /\ r.blocked_until <= t.now
     /\ ~RolloverDue(r, t.now)

\* C16 as stated: the first check_quota after the cooldown of a quota block,
\* with no rollover since, returns can_proceed = true.
C16_AllowedAfterCooldown ==
  \A p \in Procs : CooldownElapsed(p) => task[p].can

\* C16 amended: the first check_quota after the cooldown of a quota block,
\* with no rollover since, clears the block (is_blocked = false,
\* blocked_until = NULL), leaves tokens_consumed as it is, and returns
\* can_proceed = false with 0 remaining.
C16_UnblockedButDenied ==
  \A p \in Procs :
    LET t == task[p]
        row == table[t.user_key]
    IN CooldownElapsed(p)
       => /\ ~t.can /\ t.rem = 0
          /\ ~row.is_blocked /\ row.blocked_until = NULL
          /\ row.tokens_consumed = t.result.tokens_consumed

\* the check runs at the very instant the cooldown ends, on the day of the
\* block
C16_Witness ==
  LET t == task[1] IN
  /\ CooldownElapsed(1) /\ t.path = "normal"
  /\ t.result.blocked_until = t.now
  /\ t.result.tokens_consumed > max_tokens
  /\ UtcDate(t.result.last_reset) = UtcDate(t.now)
  /\ ~table["u1"].is_blocked
  /\ table["u1"].tokens_consumed >= max_tokens

\* handler p's unblock_user cleared a quota block and handler q's check_quota
\* read the row that the unblock left, with no rollover due
CheckAfterUnblock(p, q) ==
  LET a == task[p]
      c == task[q]
  IN /\ Returned(p, "unblock_user") /\ a.path = "ok"
     /\ a.result.present /\ a.result.is_blocked
     /\ a.result.tokens_consumed >= max_tokens
     /\ Returned(q, "check_quota") /\ ~c.raised
     /\ c.result = UnblockRow(a.result)
     /\ ~RolloverDue(c.result, c.now)

\* C17 as stated: the check_quota that follows unblock_user on a
\* quota-blocked row, with no rollover in between, returns can_proceed = true.
C17_AllowedAfterUnblock ==
  \A p, q \in Procs : CheckAfterUnblock(p, q) => task[q].can

\* C17 amended: the check_quota that follows unblock_user on a quota-blocked
\* row, with no rollover in between, finds the row unblocked and its
\* tokens_consumed untouched, and returns can_proceed = false with 0
\* remaining.
C17_DeniedAfterUnblock ==
  \A p, q \in Procs :
    CheckAfterUnblock(p, q)
    => /\ ~task[q].can /\ task[q].rem = 0 /\ task[q].path = "normal"
       /\ ~task[q].result.is_blocked
       /\ task[q].result.tokens_consumed = task[p].result.tokens_consumed

\* the block was still active when the administrator lifted it
C17_Witness ==
  /\ CheckAfterUnblock(1, 2)
  /\ task[1].result.blocked_until > task[2].now
  /\ table["u1"] = task[2].result
  /\ ~task[2].can

\* the step is the SELECT of handler q's check_quota, made before the end of
\* the cooldown that began when a deduction reached the limit, with no reset,
\* unblock or refund below the limit since
SelectDuringCooldown(q) ==
  LET u == task[q].user_key IN
  /\ task[q].pc = "cq_select" /\ task'[q].pc # "cq_select"
  /\ table[u].present
  /\ hist[u].blocked_at # NULL
  /\ now < hist[u].blocked_at + cooldown_hours

\* the call has answered false, or has only the unblock statement left and
\* will answer false after it
NotAdmitted(t) ==
  \/ t.pc = "done" /\ ~t.can
  \/ t.pc = "cq_unblock" /\ ~FinalAnswer(t, t.result).can

UnblockedTwice(p, q) ==
  /\ p # q
  /\ Returned(p, "unblock_user") /\ ~task[p].raised
  /\ Returned(q, "unblock_user") /\ ~task[q].raised
  /\ task[q].user_key = task[p].user_key
  /\ task[q].result =
       [task[p].result EXCEPT !.is_blocked = FALSE, !.blocked_until = NULL]

\* the step is the statement of handler q's unblock_user, run on the row as
\* handler p's unblock_user should have left it
SecondUnblock(p, q) ==
  /\ p # q
  /\ Returned(p, "unblock_user") /\ ~task[p].raised
  /\ task[q].op = "unblock_user" /\ task[q].pc = "ub_update"
  /\ task'[q].pc = "done" /\ ~task'[q].raised
  /\ task[q].user_key = task[p].user_key
  /\ table[task[q].user_key] =
       [task[p].result EXCEPT !.is_blocked = FALSE, !.blocked_until = NULL]

\* C19: of two consecutive unblock_user calls both return true, and the
\* second leaves the row as the first left it: is_blocked = false,
\* blocked_until = NULL, every other column as before the first call.
C19_UnblockIdempotent ==
  [][\A p, q \in Procs :
       SecondUnblock(p, q)
       => LET u == task[q].user_key IN
          /\ task[p].can /\ task'[q].can
          /\ table'[u] = table[u]
          /\ ~table'[u].is_blocked /\ table'[u].blocked_until = NULL]_vars

\* the first call lifted a quota block, the second found nothing to lift
C19_Witness ==
  /\ UnblockedTwice(1, 2)
  /\ task[1].result.present /\ task[1].result.is_blocked
  /\ task[1].result.tokens_consumed >= max_tokens
  /\ ~task[2].result.is_blocked
  /\ table["u1"] = task[2].result

\* C20: the statement of unblock_user leaves tokens_consumed, requests_count,
\* last_reset and user_timezone of its row as they were, creates no row, and
\* leaves the rows of all other identities untouched.
C20_UnblockFrame ==
  [][\A p \in Procs :
       LET u == task[p].user_key IN
       (/\ task[p].op = "unblock_user" /\ task[p].pc = "ub_update"
        /\ task'[p].pc = "done")
       => /\ table'[u].present = table[u].present
          /\ table'[u].tokens_consumed = table[u].tokens_consumed
          /\ table'[u].requests_count = table[u].requests_count
          /\ table'[u].last_reset = table[u].last_reset
          /\ table'[u].user_timezone = table[u].user_timezone
          /\ \A v \in DOMAIN table \ {u} : table'[v] = table[v]]_vars

\* u1 was unblocked over the limit while u2 stayed blocked
C20_Witness ==
  LET t == task[1] IN
  /\ Returned(1, "unblock_user") /\ t.user_key = "u1"
  /\ t.result.is_blocked /\ t.result.tokens_consumed > max_tokens
  /\ ~table["u1"].is_blocked
  /\ table["u1"].tokens_consumed = t.result.tokens_consumed
  /\ table["u1"].requests_count = MaxRequests
  /\ "u2" \in DOMAIN table
  /\ table["u2"].is_blocked /\ table["u2"].blocked_until # NULL

(* C21: the status reports percentage_used = min(100, floor(100 *          *)
(* tokens_consumed / limit)), is_warning = (percentage_used >= threshold), *)
(* and a message exactly when is_warning.                                  *)
C21_PercentageIsFloor ==
  (calc.fn = "get_quota_status" /\ calc.done) =>
     /\ calc.out.percentage_used =
          Min(100, (100 * calc.tokens_consumed) \div calc.max_tokens)
     /\ calc.out.is_warning = (calc.out.percentage_used >= demo_warning_threshold)
     /\ (calc.out.message # <<>>) = calc.out.is_warning

\* handler-independent view of a finished call of the limiter
LimiterReturned(fn) == calc.fn = fn /\ calc.pc = "done"

\* the rows of an address written within the trailing minute
InWindow(ip) ==
  Count(audit, {r \in DOMAIN audit : /\ r.ip_address = ip
                                      /\ r.created_at >= now - one_minute})

(* C22: check_rate_limit returns allowed = (count < limit) and the count,   *)
(* the count being the audit rows of that address in the trailing minute,  *)
(* at most limit + 100; 150 rows against a limit of 100 give (false, 150), *)
(* no row gives (true, 0).                                                 *)
C22_RateLimitCount ==
  (/\ LimiterReturned("check_rate_limit")
   /\ ~calc.raised
   /\ ~BlankIp(calc.ip_address)) =>
     LET count == Min(InWindow(calc.ip_address), ip_rate_limit_requests + ScanMargin)
     IN /\ calc.out = <<count < ip_rate_limit_requests, count>>
        /\ InWindow(calc.ip_address) = 150 => calc.out = <<FALSE, 150>>
        /\ InWindow(calc.ip_address) = 0 => calc.out = <<TRUE, 0>>

\* 150 rows of the address, and as many of another one, within the minute
C22_Witness ==
  /\ LimiterReturned("check_rate_limit")
  /\ calc.ip_address = IpA
  /\ InWindow(IpA) = 150
  /\ InWindow(IpB) = 150
  /\ calc.out = <<FALSE, 150>>

SuspicionVerdict(ip) ==
  LET mine == Rows(audit, {r \in DOMAIN audit : r.ip_address = ip})
      blocked == Count(mine, {r \in DOMAIN mine : /\ r.is_blocked
                                                   /\ r.created_at >= now - one_hour})
      users == Cardinality({r.user_key : r \in {x \in DOMAIN mine : x.user_key # NullKey}})
  IN IF InWindow(ip) > ip_suspicious_req_per_min
     THEN <<TRUE, "High request rate">>
     ELSE IF AvgScore(mine) > Frac(7, 10)
          THEN <<TRUE, "High average abuse score">>
          ELSE IF blocked > MaxBlockedCount
               THEN <<TRUE, "Multiple blocked requests">>
               ELSE IF users > ip_suspicious_unique_users
                    THEN <<TRUE, "Requests from many different users">>
                    ELSE <<FALSE, "No suspicious patterns detected">>

(* C28: is_ip_suspicious tries, in this order, the request rate, the mean  *)
(* abuse score, the blocked requests of the trailing hour and the distinct *)
(* identities, and answers with the first rule that matches, or (false,    *)
(* reason) when none does; a blank address is answered (false, "") without *)
(* a statement.                                                            *)
C28_SuspicionRules ==
  (LimiterReturned("is_ip_suspicious") /\ ~calc.raised) =>
     IF BlankIp(calc.ip_address)
     THEN calc.out = <<FALSE, "">> /\ calc.statements = 0
     ELSE calc.out = SuspicionVerdict(calc.ip_address)

\* the blocked requests decide although the identities are too many as well
C28_Witness ==
  /\ LimiterReturned("is_ip_suspicious")
  /\ ~calc.raised
  /\ ~BlankIp(calc.ip_address)
  /\ calc.stats.unique_users > ip_suspicious_unique_users
  /\ calc.out = <<TRUE, "Multiple blocked requests">>

\* a scoring function has been applied
Scored(fn) == calc.fn = fn /\ calc.done

(* C29: get_reputation_score is a function of the stats alone, takes absent *)
(* keys as zero, and returns min(1, R + 0.4 * avg + min(0.3, 0.3 * today /  *)
(* max(total, 1)) + U), a value in [0, 1], with R = min(0.4, (rpm - limit)  *)
(* / limit) for rpm > limit and U = min(0.2, (users - 10) / 100) for users  *)
(* > 10; empty stats give 0.                                                *)
C29_ReputationFormula ==
  Scored("get_reputation_score") =>
     LET s == calc.stats
         rpm == Get(s, "requests_per_minute", 0)
         avg == Get(s, "abuse_score_avg", 0)
         today == Get(s, "requests_today", 0)
         total == Get(s, "total_requests", 0)
         users == Get(s, "unique_users", 0)
         R == IF rpm > ip_rate_limit_requests
              THEN Min((4 * Unit) \div 10,
                       ((rpm - ip_rate_limit_requests) * Unit) \div ip_rate_limit_requests)
              ELSE 0
         U == IF users > 10 THEN Min((2 * Unit) \div 10, ((users - 10) * Unit) \div 100)
              ELSE 0
         spike == Min((3 * Unit) \div 10, (3 * today * Unit) \div (10 * Max(total, 1)))
     IN /\ calc.out = Min(Unit, R + (4 * avg) \div 10 + spike + U)
        /\ calc.out \in 0..Unit
        /\ s = <<>> => calc.out = 0

\* every factor at its cap: the sum would be 1.3
C29_Witness ==
  /\ Scored("get_reputation_score")
  /\ calc.stats # <<>>
  /\ calc.stats # ErrorStats
  /\ calc.stats.requests_per_minute = 300
  /\ calc.stats.abuse_score_avg = Unit
  /\ calc.stats.requests_today = calc.stats.total_requests
  /\ calc.stats.total_requests > 0
  /\ calc.stats.unique_users = 110
  /\ calc.out = Unit

\* the weighted sum of the six factors of an application of the scorer
WeightedSum(c, rotation, velocity, inconsistency) ==
  Min(Unit, (25 * AnalyzeUserAgent(OrEmpty(c.user_agent))
             + 30 * AnalyzeRequestRate(c.request_rate)
             + 25 * c.ip_reputation
             + (IF rotation
                THEN 15 * AnalyzeIpRotation(c.ip_address, c.previous_ips) ELSE 0)
             + (IF velocity
                THEN 10 * Min(Unit, (2 * c.tokens_consumed * Unit) \div c.max_tokens)
                ELSE 0)
             + (IF inconsistency
                THEN 10 * AnalyzeFingerprintConsistency(
                            GenerateFingerprint(c.user_agent, c.ip_address),
                            c.previous_fingerprints)
                ELSE 0)) \div 100)

(* C30 as stated: compute_abuse_score returns min(1, 0.25 ua + 0.30 rate +  *)
(* 0.25 reputation + 0.15 rotation if previous IPs are supplied + 0.10      *)
(* min(1, 2 consumed / limit) if consumption data is present + 0.10         *)
(* inconsistency if previous fingerprints are supplied).                    *)
C30_WeightedSum ==
  Scored("compute_abuse_score") =>
     calc.out = WeightedSum(calc.args, calc.args.previous_ips # <<>>,
                            calc.args.tokens_consumed > 0 /\ calc.args.max_tokens > 0,
                            calc.args.previous_fingerprints # <<>>)

(* C30 amended: the rotation term is added only if previous IPs and the    *)
(* current IP are both supplied; a headless browser with zero rate, zero   *)
(* reputation and no history scores 0.7 * 0.25 = 0.175.                    *)
C30_WeightedSumWithIp ==
  Scored("compute_abuse_score") =>
     /\ calc.out = WeightedSum(calc.args,
                               calc.args.previous_ips # <<>> /\ ~Falsy(calc.args.ip_address),
                               calc.args.tokens_consumed > 0 /\ calc.args.max_tokens > 0,
                               calc.args.previous_fingerprints # <<>>)
     /\ (/\ calc.args.user_agent = UaHeadless
         /\ calc.args.request_rate = 0
         /\ calc.args.ip_reputation = 0
         /\ calc.args.previous_ips = <<>>
         /\ calc.args.previous_fingerprints = <<>>
         /\ calc.args.tokens_consumed = 0) => calc.out = (175 * Unit) \div 1000

\* previous IPs without a current one: the rotation term is left out
C30_Witness ==
  /\ Scored("compute_abuse_score")
  /\ calc.args.ip_address = None
  /\ calc.args.previous_ips = <<IpA, IpB>>
  /\ calc.args.user_agent = UaHeadless
  /\ calc.args.request_rate = 0
  /\ calc.args.ip_reputation = 0
  /\ calc.args.previous_fingerprints = <<>>
  /\ calc.args.tokens_consumed = 0
  /\ calc.out = (175 * Unit) \div 1000

\* a process_query call is being served, or has just returned
Serving == query.pc # "idle"

\* the call being served has consulted the stage
Consulted(stage) == \E i \in DOMAIN query.stages : query.stages[i] = stage

\* C24 (as stated): with fingerprinting enabled, a call whose ip_address is
\* None or empty is never admitted to the quota stage or to the model, and
\* returns denied by the IP stage.
C24_MissingIpDenied ==
  (Serving /\ query.settings.enable_fingerprint /\ Falsy(query.ip_address))
    => /\ query.pc \notin {"step3", "check_quota", "quota_status", "gemini",
                           "deduct", "warning"}
       /\ ~Consulted("quota")
       /\ query.pc = "done" => query.block_reason = "rate_limit_ip"

\* the place of a stage in the pipeline
StageOrder(stage) ==
  CASE stage = "ip" -> 1 [] stage = "abuse" -> 2 [] stage = "quota" -> 3

\* check_rate_limit has returned a denial to the call being served
IpDenied ==
  Serving /\ calc.fn = "check_rate_limit" /\ calc.pc = "done" /\ ~calc.out[1]

\* C25: the stages are consulted in the order IP rate limit, abuse score,
\* quota.  A call that the limiter denies returns with reason rate_limit_ip
\* having scored nothing and without any statement of the quota engine; a
\* score above the threshold leads to the audit row and the return, never to
\* step 3, and a call denied for it has sent no statement of the quota engine.
C25_StagesInOrder ==
  /\ Serving =>
       \A i, j \in DOMAIN query.stages :
          i < j => StageOrder(query.stages[i]) < StageOrder(query.stages[j])
  /\ IpDenied =>
       /\ query.pc \in {"rate_limit", "audit", "done"}
       /\ query.pc # "rate_limit" => query.block_reason = "rate_limit_ip"
       /\ query.stages = <<"ip">>
       /\ calc.statements <= 1
       /\ task[Handler] = Idle
  /\ (Serving /\ query.pc = "stats") =>
       AbuseVerdict(query, query.settings.abuse_score_block_threshold + 1).pc = "audit"
  /\ (Serving /\ query.block_reason = "suspicious_behavior") =>
       /\ ~Consulted("quota")
       /\ task[Handler] = Idle

C25_Witness ==
  /\ IpDenied
  /\ query.pc = "done"
  /\ ~BlankIp(query.ip_address)
  /\ calc.out[2] >= ip_rate_limit_requests
  /\ BagCardinality(audit) = query.audit_before + 1

\* the scores process_query can compute: every user agent and address, with
\* statistics up to the worst ones
FlowScores ==
  {FlowScore(ua, ip, stats) :
     ua \in UserAgents, ip \in IpArguments, stats \in StatsInputs}

\* C26 (as stated): for the block threshold in force there are a user agent,
\* an address and statistics of the address for which process_query computes
\* an abuse score above the threshold.
C26_AbuseBlockedReachable ==
  Serving => \E s \in FlowScores : s > query.settings.abuse_score_block_threshold

\* what the code does instead: no call is denied for its abuse score, which
\* stays at or below 0.25 * 0.7 + 0.25 * 1.0
C26_NoAbuseDenial ==
  /\ Serving => /\ query.block_reason # "suspicious_behavior"
                /\ query.abuse_score <= Frac(425, 1000)
  /\ \A s \in FlowScores : s <= Frac(425, 1000)

\* C27: a process_query call leaves the log as it found it until its
\* _log_audit, whose INSERT adds exactly one row on every path (none when the
\* INSERT raises); no step removes a row or lowers the number of its copies.
C27_OneAuditRow ==
  [][/\ audit \sqsubseteq audit'
     /\ query'.pc # "idle" =>
          BagCardinality(audit') =
             query'.audit_before
               + (IF query'.pc = "done" /\ ~query'.audit_failed THEN 1 ELSE 0)]_vars

C27_Witness ==
  /\ query.pc = "done"
  /\ ~query.audit_failed
  /\ query.block_reason = "internal_error"
  /\ BagCardinality(audit) = query.audit_before + 1
  /\ \E r \in DOMAIN audit : r.block_reason = "rate_limit_ip" /\ r.is_blocked

\* a sub-score as the specification bounds it
Clamp(x) == Max(0, Min(Unit, x))

(* C31 as stated: compute_abuse_score returns a value in [0, 1] whatever    *)
(* numbers are passed, the reputation being bounded to [0, 1] like the      *)
(* other sub-scores before it is weighted.                                  *)
C31_ScoreInUnitInterval ==
  Scored("compute_abuse_score") =>
     /\ calc.out \in 0..Unit
     /\ calc.out = AbuseScore([calc.args EXCEPT !.ip_reputation = Clamp(@)])

\* what the code does: with a reputation in [0, 1] the score is in [0, 1]
C31_InRangeForBoundedReputation ==
  (Scored("compute_abuse_score") /\ calc.args.ip_reputation \in 0..Unit)
     => calc.out \in 0..Unit

(* C32 as stated: the request-rate sub-score is 0.0 up to 0.5 requests per  *)
(* minute, 0.1 up to 2, 0.3 up to 5, 0.6 up to 10 and min(1, r / 50) above, *)
(* and no lower rate scores higher than the rate applied.                   *)
C32_RateScoreMonotone ==
  Scored("_analyze_request_rate") =>
     LET r == calc.requests_per_minute
     IN /\ calc.out = CASE r <= 5 -> 0
                        [] r > 5 /\ r <= 20 -> Unit \div 10
                        [] r > 20 /\ r <= 50 -> (3 * Unit) \div 10
                        [] r > 50 /\ r <= 100 -> (6 * Unit) \div 10
                        [] r > 100 -> Min(Unit, (r * Unit) \div 500)
        /\ \A lower \in (0 - 10)..r : AnalyzeRequestRate(lower) <= calc.out

\* what the code does: the values are those of the table, in [0, 1], and
\* the score is non-decreasing up to 10 requests per minute and from 30 on
C32_RateScoreSteps ==
  Scored("_analyze_request_rate") =>
     LET r == calc.requests_per_minute
     IN /\ calc.out = CASE r <= 5 -> 0
                        [] r > 5 /\ r <= 20 -> Unit \div 10
                        [] r > 20 /\ r <= 50 -> (3 * Unit) \div 10
                        [] r > 50 /\ r <= 100 -> (6 * Unit) \div 10
                        [] r > 100 -> Min(Unit, (r * Unit) \div 500)
        /\ calc.out \in 0..Unit
        /\ (r <= 100 \/ r >= 300) =>
              \A lower \in (0 - 10)..r : AnalyzeRequestRate(lower) <= calc.out

\* a step of a refund_tokens call of handler p
RefundStep(p) == task[p].op = "refund_tokens" /\ InCall(p) /\ task'[p] # task[p]

C33_UnblockAfterLowCount ==
  [][\A p \in Procs :
       RefundStep(p) =>
          LET u == task[p].user_key
          IN (table[u].is_blocked /\ ~table'[u].is_blocked)
                => /\ task[p].pc = "rf_unblock"
                   /\ task[p].rem > 0]_vars

\* a reset is due at t for a row whose zone is tz (lines 116-158)
ResetDueIn(row, tz, t) ==
  IF ValidZone(tz)
  THEN LocalDate(row.last_reset, tz) < LocalDate(t, tz)
  ELSE UtcDate(row.last_reset) < UtcDate(t)

\* handler p sends the reset UPDATE of a check_quota that began at this
\* instant, no statement of which has raised
ResetsNow(p) ==
  /\ task[p].pc \in {"cq_reset", "cq_reset_utc"}
  /\ task'[p].pc = "done"
  /\ task'[p].path = "reset"
  /\ ~task[p].raised
  /\ task[p].now = now

(* C34 as stated: a check_quota resets the row only if a reset was due, at  *)
(* this instant, in the zone the row held when the instant began; hints     *)
(* passed during the instant do not bring a reset about.                    *)
C34_NoResetByHint ==
  [][\A p \in Procs :
       ResetsNow(p) =>
          LET u == task[p].user_key
          IN ResetDueIn(table[u], hist[u].zone, now)]_vars

\* what the code does: a reset is due in the zone the call read with the row
C34_ResetDueInZoneRead ==
  [][\A p \in Procs :
       ResetsNow(p) =>
          ResetDueIn(task[p].result, task[p].result.user_timezone, now)]_vars

(* C35 as stated: with every request costing at most MaxCost tokens, the    *)
(* requests that process_query charges leave tokens_consumed below          *)
(* max_tokens + MaxCost, however the calls of the handlers interleave.      *)
C35_OvershootOneRequest ==
  \A u \in DOMAIN table : table[u].tokens_consumed < max_tokens + MaxCost

\* what the code does: every handler that was let through may charge once
C35_OvershootPerHandler ==
  \A u \in DOMAIN table : table[u].tokens_consumed < max_tokens + handlers * MaxCost

\* the requests of FlowIp of this minute that went past step 1: those logged
\* with another reason than rate_limit_ip and those not logged yet
PassedIpStage ==
  Count(audit, {r \in DOMAIN audit : /\ r.ip_address = FlowIp
                                      /\ r.created_at >= now - one_minute
                                      /\ r.block_reason # "rate_limit_ip"})
  + Cardinality({p \in Procs : /\ task[p].op = "check_rate_limit"
                               /\ task[p].pc = "done"
                               /\ task[p].can})

(* C36 as stated: whatever the interleaving of the handlers, at most        *)
(* ip_rate_limit_requests of the requests of one address within a minute    *)
(* go past the IP stage.                                                    *)
C36_IpLimitUnderConcurrency == PassedIpStage <= ip_rate_limit_requests

\* what the code does: each handler can let one request through beyond the
\* limit, since a request is counted only once its row is logged
C36_ExcessPerHandler == PassedIpStage < ip_rate_limit_requests + handlers

(* C37: in every state reached by statements of check_quota, deduct_tokens, *)
(* refund_tokens and unblock_user, in any interleaving, a row has           *)
(* is_blocked = true exactly when its blocked_until is not NULL.            *)
C37_FlagAndDeadlineCoupled ==
  \A u \in DOMAIN table :
    table[u].present => (table[u].is_blocked <=> table[u].blocked_until # NULL)

\* a deduction blocked the row of u1 while the other handler was between the
\* two statements of a refund
C37_Witness ==
  /\ Returned(1, "deduct_tokens")
  /\ task[2].pc = "rf_unblock"
  /\ table["u1"].is_blocked
  /\ table["u1"].blocked_until = task[1].now + cooldown_hours

\* the UPDATE of a deduct_tokens call on row u
DeductStep(u) ==
  \E p \in Procs : /\ task[p].pc = "dd_update"
                   /\ task[p].user_key = u
                   /\ task'[p].pc = "done"
                   /\ task'[p].path = "ok"

(* C38 as stated: a deduct_tokens on a row that is already blocked, with    *)
(* tokens_consumed at or over the limit, leaves blocked_until as it was.    *)
C38_DeadlineFixed ==
  [][\A u \in DOMAIN table :
       (DeductStep(u) /\ table[u].is_blocked /\ table[u].tokens_consumed >= max_tokens)
         => table'[u].blocked_until = table[u].blocked_until]_vars

\* what the code does: every deduction that ends at or over the limit sets
\* the deadline anew, from the clock read by that call
C38_DeadlineFromLastDeduction ==
  [][\A u \in DOMAIN table :
       (DeductStep(u) /\ table'[u].tokens_consumed >= max_tokens)
         => \E p \in Procs : /\ task[p].pc = "dd_update" /\ task'[p].pc = "done"
                             /\ table'[u].blocked_until = task[p].now + cooldown_hours]_vars

\* check_quota has answered handler p for u: a denial while a midnight of
\* every zone is still ahead of the clock's last tick, and a grant
Denied(p, u) ==
  /\ Returned(p, "check_quota")
  /\ task[p].user_key = u
  /\ ~task[p].can
  /\ task[p].now <= MaxTime - TicksPerDay

Granted(p, u) ==
  /\ Returned(p, "check_quota")
  /\ task[p].user_key = u
  /\ task[p].can

(* C39: when the clock keeps advancing, the store works and check_quota     *)
(* keeps being called, every denial of an identity is followed by a         *)
(* check_quota call for it that returns can_proceed = true.                 *)
C39_DenialNotPermanent ==
  \A u \in Users : (\E p \in Procs : Denied(p, u)) ~> (\E p \in Procs : Granted(p, u))

\* the cooldown has run out and the block was cleared, but the count is still
\* at the limit: the call is denied until the next midnight
C39_Witness ==
  /\ Denied(1, "u1")
  /\ task[1].path = "normal"
  /\ ~table["u1"].is_blocked
  /\ table["u1"].tokens_consumed >= max_tokens

\* the call being served was denied by a stage or its model call raised
NoOutput ==
  /\ query.pc \in {"audit", "done"}
  /\ query.block_reason \in {"rate_limit_ip", "suspicious_behavior",
                             "quota_exceeded", "internal_error"}

(* C40: a process_query call that is denied by the IP stage, the abuse      *)
(* stage or the quota stage, or whose model call raises, leaves the         *)
(* identity's tokens_consumed and requests_count no higher than it found    *)
(* them.                                                                    *)
C40_NoOutputNoCharge ==
  NoOutput =>
    /\ table[query.user_key].tokens_consumed <= query.tokens_before
    /\ table[query.user_key].requests_count <= query.requests_before

\* the model call of the second request raised, after the first was charged
C40_Witness ==
  /\ query.pc = "done"
  /\ query.block_reason = "internal_error"
  /\ query.tokens_before > 0
  /\ table[query.user_key].tokens_consumed = query.tokens_before
  /\ table[query.user_key].requests_count = query.requests_before

====
